---- MODULE Spec2Model ----
(***************************************************************************)
(* Cycle-accurate model of the output-stationary systolic array simulator  *)
(* (hardware.js: PE, systolic array, delay triangles, row memories,        *)
(* controller, top level) with the symbolic value model (value.js).        *)
(*                                                                         *)
(* JavaScript arrays are functions on 0..n-1 so that every index of the    *)
(* source is kept.  A thrown Error is a result record whose err field      *)
(* names the error kind of the throw site.                                 *)
(***************************************************************************)
EXTENDS Integers, Sequences, FiniteSets, TLC

(* ----------------------------- bounds ---------------------------------- *)

\* Largest matrix / array dimension handed to the constructor.
MaxDim == 3

\* How many cycles beyond the default 3N + L an explicit cycle count may ask for.
MaxExtraCycles == 2

\* How many times simulate is called on one top level.
MaxCalls == 2

\* Largest row / column index i and largest index j of a matrix element handed to a
\* stand-alone PE.
MaxI == 1
MaxJ == 1

\* Largest array width and stream length typed into the panel (the smallest is 2), and
\* how many times Play starts an interval.
MaxPanelWidth == 2
MaxPanelStream == 3
MaxTimers == 2

\* Largest row count and column count of a stand-alone memory.
MaxRamDim == 2

\* Largest depth N of a stand-alone delay triangle, and how many cycles it is driven.
MaxDepth == 3
MaxDelayCycles == 4

(* --------------------------- error kinds ------------------------------- *)

NoError == "none"
DimensionMismatch == "DimensionMismatch"
InconsistentAccumulation == "InconsistentAccumulation"
InvalidOperandPair == "InvalidOperandPair"
LengthMismatch == "LengthMismatch"
OutOfBounds == "OutOfBounds"

(* ----------------------------- arrays ---------------------------------- *)

Null == [kind |-> "null"]

Length(a) == Cardinality(DOMAIN a)

\* new Array(n).fill(v)
Filled(n, v) == [idx \in 0..(n - 1) |-> v]

\* a.slice(start, end) for 0 <= start <= end <= a.length
Slice(a, start, end) == [idx \in 0..(end - start - 1) |-> a[start + idx]]

(* --------------------------- value model ------------------------------- *)

ConstantInteger(value) == [kind |-> "ConstantInteger", value |-> value]

SymbolicMatrixElement(matrixName, i, j) ==
  [kind |-> "SymbolicMatrixElement", matrixName |-> matrixName, i |-> i, j |-> j]

SymbolicPartialSum(leftMatrixName, rightMatrixName, i, j, N) ==
  [kind |-> "SymbolicPartialSum", leftMatrixName |-> leftMatrixName,
   rightMatrixName |-> rightMatrixName, i |-> i, j |-> j, N |-> N]

isConstantInteger(v) == v.kind = "ConstantInteger"
isSymbolicMatrixElement(v) == v.kind = "SymbolicMatrixElement"
isSymbolicPartialSum(v) == v.kind = "SymbolicPartialSum"

isZero(v) == v.value = 0

isConstantZero(value) == isConstantInteger(value) /\ isZero(value)

\* Value.toString of the three variants
toString(v) ==
  IF isConstantInteger(v) THEN ToString(v.value)
  ELSE IF isSymbolicMatrixElement(v)
    THEN v.matrixName \o "_{" \o ToString(v.i) \o ToString(v.j) \o "}"
    ELSE "\\sum_{0}^{" \o ToString(v.N - 1) \o "} "
         \o v.leftMatrixName \o "_{" \o ToString(v.i) \o "i} "
         \o v.rightMatrixName \o "_{i" \o ToString(v.j) \o "}"

(* ------------------------ processing element --------------------------- *)

\* OutputStationaryPE constructor
OutputStationaryPE ==
  [X |-> ConstantInteger(0), W |-> ConstantInteger(0), Acc |-> ConstantInteger(0)]

\* PE_validate without the comparison of the running count with the reduction index
PE_validate_noCount(regs) ==
  LET k == regs.X.j
      nextAcc == regs.Acc
  IN IF regs.X.j # regs.W.i THEN InconsistentAccumulation
     ELSE IF isConstantZero(nextAcc)
       THEN (IF k # 0 THEN InconsistentAccumulation ELSE NoError)
     ELSE IF isSymbolicPartialSum(nextAcc)
       THEN (IF \/ nextAcc.leftMatrixName # regs.X.matrixName
                \/ nextAcc.rightMatrixName # regs.W.matrixName
                \/ nextAcc.i # regs.X.i
                \/ nextAcc.j # regs.W.j
             THEN InconsistentAccumulation ELSE NoError)
     ELSE InconsistentAccumulation

\* PE_validate without the comparison of the partial sum's names and indices
PE_validate_noIdentity(regs) ==
  LET k == regs.X.j
      nextAcc == regs.Acc
  IN IF regs.X.j # regs.W.i THEN InconsistentAccumulation
     ELSE IF isConstantZero(nextAcc)
       THEN (IF k # 0 THEN InconsistentAccumulation ELSE NoError)
     ELSE IF isSymbolicPartialSum(nextAcc) /\ nextAcc.N = k
       THEN NoError
     ELSE InconsistentAccumulation

\* The validation of the fold (CAREFUL is always true): the kind of the throw, or NoError.
PE_validate(regs) ==
  LET k == regs.X.j
      nextAcc == regs.Acc
  IN IF regs.X.j # regs.W.i THEN InconsistentAccumulation
     ELSE IF isConstantZero(nextAcc)
       THEN (IF k # 0 THEN InconsistentAccumulation ELSE NoError)
     ELSE IF isSymbolicPartialSum(nextAcc) /\ nextAcc.N = k
       THEN (IF \/ nextAcc.leftMatrixName # regs.X.matrixName
                \/ nextAcc.rightMatrixName # regs.W.matrixName
                \/ nextAcc.i # regs.X.i
                \/ nextAcc.j # regs.W.j
             THEN InconsistentAccumulation ELSE NoError)
     ELSE InconsistentAccumulation

\* PE_update with the count of the new partial sum not incremented
PE_update_sameCount(regs, inValues) ==
  IF isSymbolicMatrixElement(regs.X) /\ isSymbolicMatrixElement(regs.W)
  THEN IF PE_validate(regs) # NoError
       THEN [err |-> PE_validate(regs), regs |-> regs]
       ELSE [err |-> NoError,
             regs |-> [X |-> inValues.X_in, W |-> inValues.W_in,
                       Acc |-> SymbolicPartialSum(regs.X.matrixName, regs.W.matrixName,
                                                  regs.X.i, regs.W.j, regs.X.j)]]
  ELSE IF isConstantZero(regs.X) \/ isConstantZero(regs.W)
  THEN [err |-> NoError,
        regs |-> [X |-> inValues.X_in, W |-> inValues.W_in, Acc |-> regs.Acc]]
  ELSE [err |-> InvalidOperandPair, regs |-> regs]

\* PE_update whose pass-through branch clears the accumulator
PE_update_clearsAcc(regs, inValues) ==
  IF isSymbolicMatrixElement(regs.X) /\ isSymbolicMatrixElement(regs.W)
  THEN IF PE_validate(regs) # NoError
       THEN [err |-> PE_validate(regs), regs |-> regs]
       ELSE [err |-> NoError,
             regs |-> [X |-> inValues.X_in, W |-> inValues.W_in,
                       Acc |-> SymbolicPartialSum(regs.X.matrixName, regs.W.matrixName,
                                                  regs.X.i, regs.W.j, regs.X.j + 1)]]
  ELSE IF isConstantZero(regs.X) \/ isConstantZero(regs.W)
  THEN [err |-> NoError,
        regs |-> [X |-> inValues.X_in, W |-> inValues.W_in, Acc |-> ConstantInteger(0)]]
  ELSE [err |-> InvalidOperandPair, regs |-> regs]

\* PE_update without the final throw: any pair that is not two elements passes through
PE_update_lenient(regs, inValues) ==
  IF isSymbolicMatrixElement(regs.X) /\ isSymbolicMatrixElement(regs.W)
  THEN IF PE_validate(regs) # NoError
       THEN [err |-> PE_validate(regs), regs |-> regs]
       ELSE [err |-> NoError,
             regs |-> [X |-> inValues.X_in, W |-> inValues.W_in,
                       Acc |-> SymbolicPartialSum(regs.X.matrixName, regs.W.matrixName,
                                                  regs.X.i, regs.W.j, regs.X.j + 1)]]
  ELSE [err |-> NoError,
        regs |-> [X |-> inValues.X_in, W |-> inValues.W_in, Acc |-> regs.Acc]]

\* OutputStationaryPE.update: [err, regs]; a throw leaves the registers as they were.
PE_update(regs, inValues) ==
  IF isSymbolicMatrixElement(regs.X) /\ isSymbolicMatrixElement(regs.W)
  THEN IF PE_validate(regs) # NoError
       THEN [err |-> PE_validate(regs), regs |-> regs]
       ELSE [err |-> NoError,
             regs |-> [X |-> inValues.X_in, W |-> inValues.W_in,
                       Acc |-> SymbolicPartialSum(regs.X.matrixName, regs.W.matrixName,
                                                  regs.X.i, regs.W.j, regs.X.j + 1)]]
  ELSE IF isConstantZero(regs.X) \/ isConstantZero(regs.W)
  THEN [err |-> NoError,
        regs |-> [X |-> inValues.X_in, W |-> inValues.W_in, Acc |-> regs.Acc]]
  ELSE [err |-> InvalidOperandPair, regs |-> regs]

(* --------------------------- systolic array ---------------------------- *)

\* OutputStationarySystolicArray constructor
OutputStationarySystolicArray(N) ==
  [N |-> N, array |-> [i \in 0..(N - 1) |-> [j \in 0..(N - 1) |-> OutputStationaryPE]]]

SystolicArray_produce_output(sa, controls) ==
  IF controls.movesOutputDown
  THEN [i \in 0..(sa.N - 1) |-> sa.array[sa.N - 1][i].Acc]
  ELSE [i \in 0..(sa.N - 1) |-> ConstantInteger(0)]

\* MoveColumnDown walking the column from the top: the Acc of row 0 is copied into
\* every row before it is cleared
RECURSIVE MoveColumnDown_fromTop(_, _, _)
MoveColumnDown_fromTop(array, j, i) ==
  IF i > 0
  THEN LET r == Length(array) - i
       IN MoveColumnDown_fromTop([array EXCEPT ![r][j].Acc = array[r - 1][j].Acc], j, i - 1)
  ELSE [array EXCEPT ![0][j].Acc = ConstantInteger(0)]

\* Inner loop of the eviction: for (i = from; i > 0; i--) array[i][j].Acc = array[i-1][j].Acc
RECURSIVE MoveColumnDown(_, _, _)
MoveColumnDown(array, j, i) ==
  IF i > 0
  THEN MoveColumnDown([array EXCEPT ![i][j].Acc = array[i - 1][j].Acc], j, i - 1)
  ELSE [array EXCEPT ![0][j].Acc = ConstantInteger(0)]

\* Outer loop of the eviction: for (j = from; j < N; j++)
RECURSIVE MoveOutputDown(_, _, _)
MoveOutputDown(array, N, j) ==
  IF j < N THEN MoveOutputDown(MoveColumnDown(array, j, N - 1), N, j + 1)
  ELSE array

\* UpdatePEs visiting the PEs in increasing (i, j) order: a PE reads the registers its
\* left and upper neighbours have already replaced in this cycle
RECURSIVE UpdatePEs_increasing(_, _, _, _, _)
UpdatePEs_increasing(array, N, inputs_X, inputs_W, idx) ==
  IF idx < 0 THEN [err |-> NoError, array |-> array]
  ELSE LET i == (N * N - 1 - idx) \div N
           j == (N * N - 1 - idx) % N
           r == PE_update(array[i][j],
                          [X_in |-> IF j = 0 THEN inputs_X[i] ELSE array[i][j - 1].X,
                           W_in |-> IF i = 0 THEN inputs_W[j] ELSE array[i - 1][j].W])
       IN IF r.err # NoError THEN [err |-> r.err, array |-> array]
          ELSE UpdatePEs_increasing([array EXCEPT ![i][j] = r.regs], N, inputs_X, inputs_W,
                                    idx - 1)

\* The in-place wavefront loop, PE idx = i * N + j, visited from N*N - 1 down to 0;
\* a throwing PE aborts the loop and leaves the PEs already visited updated.
RECURSIVE UpdatePEs(_, _, _, _, _)
UpdatePEs(array, N, inputs_X, inputs_W, idx) ==
  IF idx < 0 THEN [err |-> NoError, array |-> array]
  ELSE LET i == idx \div N
           j == idx % N
           r == PE_update(array[i][j],
                          [X_in |-> IF j = 0 THEN inputs_X[i] ELSE array[i][j - 1].X,
                           W_in |-> IF i = 0 THEN inputs_W[j] ELSE array[i - 1][j].W])
       IN IF r.err # NoError THEN [err |-> r.err, array |-> array]
          ELSE UpdatePEs([array EXCEPT ![i][j] = r.regs], N, inputs_X, inputs_W, idx - 1)

\* OutputStationarySystolicArray.update: [err, sa]
SystolicArray_update(sa, inputs_X, inputs_W, controls) ==
  IF controls.movesOutputDown
  THEN [err |-> NoError, sa |-> [sa EXCEPT !.array = MoveOutputDown(sa.array, sa.N, 0)]]
  ELSE LET r == UpdatePEs(sa.array, sa.N, inputs_X, inputs_W, sa.N * sa.N - 1)
       IN [err |-> r.err, sa |-> [sa EXCEPT !.array = r.array]]

(* ------------------------ delay-register triangle ---------------------- *)

\* DelayRegisterTriangle constructor: chain i has the slots 0..i
DelayRegisterTriangle(N) ==
  [N |-> N, registers |-> [i \in 0..(N - 1) |-> [j \in 0..i |-> ConstantInteger(0)]]]

\* Delay_produce_output reading the shallow end of each chain instead of the deep end
Delay_produce_output_shallow(d, input) ==
  IF Length(input) # d.N + 1 THEN [err |-> LengthMismatch, output |-> Null]
  ELSE [err |-> NoError,
        output |-> [i \in 0..d.N |-> IF i = 0 THEN input[0] ELSE d.registers[i - 1][0]]]

\* [err, output]
Delay_produce_output(d, input) ==
  IF Length(input) # d.N + 1 THEN [err |-> LengthMismatch, output |-> Null]
  ELSE [err |-> NoError,
        output |-> [i \in 0..d.N |-> IF i = 0 THEN input[0] ELSE d.registers[i - 1][i - 1]]]

\* ShiftChain walking the chain from the front: slot 0 is copied into every slot before
\* the input is stored
RECURSIVE ShiftChain_fromFront(_, _, _)
ShiftChain_fromFront(chain, j, v) ==
  IF j > 0
  THEN LET r == Length(chain) - j
       IN ShiftChain_fromFront([chain EXCEPT ![r] = chain[r - 1]], j - 1, v)
  ELSE [chain EXCEPT ![0] = v]

\* for (j = from; j > 0; j--) chain[j] = chain[j-1]; chain[0] = v
RECURSIVE ShiftChain(_, _, _)
ShiftChain(chain, j, v) ==
  IF j > 0 THEN ShiftChain([chain EXCEPT ![j] = chain[j - 1]], j - 1, v)
  ELSE [chain EXCEPT ![0] = v]

\* Delay_update refusing only the inputs that are too short
Delay_update_acceptsLonger(d, input) ==
  IF Length(input) < d.N + 1 THEN [err |-> LengthMismatch, d |-> d]
  ELSE [err |-> NoError,
        d |-> [d EXCEPT !.registers =
                 [i \in 0..(d.N - 1) |-> ShiftChain(d.registers[i], i, input[i + 1])]]]

\* [err, d]
Delay_update(d, input) ==
  IF Length(input) # d.N + 1 THEN [err |-> LengthMismatch, d |-> d]
  ELSE [err |-> NoError,
        d |-> [d EXCEPT !.registers =
                 [i \in 0..(d.N - 1) |-> ShiftChain(d.registers[i], i, input[i + 1])]]]

(* ------------------------------ memory --------------------------------- *)

\* MatrixRAM constructor ignoring the transposed flag
MatrixRAM_notTransposed(row_count, col_count, first_value, transposed) ==
  [row_count |-> row_count, col_count |-> col_count,
   cells |-> [c \in 0..(row_count * col_count - 1) |->
                IF isConstantInteger(first_value) THEN first_value
                ELSE SymbolicMatrixElement(first_value.matrixName, c \div col_count,
                                           c % col_count)]]

\* MatrixRAM constructor (first_value is a ConstantInteger or a SymbolicMatrixElement)
MatrixRAM(row_count, col_count, first_value, transposed) ==
  [row_count |-> row_count, col_count |-> col_count,
   cells |-> [c \in 0..(row_count * col_count - 1) |->
                IF isConstantInteger(first_value) THEN first_value
                ELSE LET i == c \div col_count
                         j == c % col_count
                     IN IF transposed
                        THEN SymbolicMatrixElement(first_value.matrixName, j, i)
                        ELSE SymbolicMatrixElement(first_value.matrixName, i, j)]]

\* checkPosition refusing a column window that ends at the last column
checkPosition_strictColumn(mem, row_index, col_offset, element_count) ==
  IF row_index < 0 \/ row_index >= mem.row_count THEN OutOfBounds
  ELSE IF col_offset < 0 \/ col_offset + element_count >= mem.col_count THEN OutOfBounds
  ELSE NoError

\* MatrixRAM._checkPosition: the kind of the throw, or NoError
checkPosition(mem, row_index, col_offset, element_count) ==
  IF row_index < 0 \/ row_index >= mem.row_count THEN OutOfBounds
  ELSE IF col_offset < 0 \/ col_offset + element_count > mem.col_count THEN OutOfBounds
  ELSE NoError

\* [err, row]
readRow(mem, row_index, col_offset, element_count) ==
  IF checkPosition(mem, row_index, col_offset, element_count) # NoError
  THEN [err |-> OutOfBounds, row |-> Null]
  ELSE LET start == row_index * mem.col_count + col_offset
       IN [err |-> NoError, row |-> Slice(mem.cells, start, start + element_count)]

\* writeRow computing the start without the row index: every write lands in row 0
writeRow_rowZero(mem, row_index, col_offset, element_count, row) ==
  IF checkPosition(mem, row_index, col_offset, element_count) # NoError
  THEN [err |-> OutOfBounds, mem |-> mem]
  ELSE LET start == col_offset
       IN [err |-> NoError,
           mem |-> [mem EXCEPT !.cells =
                      [c \in DOMAIN mem.cells |->
                         IF c >= start /\ c < start + element_count
                         THEN row[c - start] ELSE mem.cells[c]]]]

\* [err, mem]
writeRow(mem, row_index, col_offset, element_count, row) ==
  IF checkPosition(mem, row_index, col_offset, element_count) # NoError
  THEN [err |-> OutOfBounds, mem |-> mem]
  ELSE LET start == row_index * mem.col_count + col_offset
       IN [err |-> NoError,
           mem |-> [mem EXCEPT !.cells =
                      [c \in DOMAIN mem.cells |->
                         IF c >= start /\ c < start + element_count
                         THEN row[c - start] ELSE mem.cells[c]]]]

(* ----------------------------- controller ------------------------------ *)

\* OutputStationaryController constructor
OutputStationaryController(arrayWidth, streamLength) ==
  [arrayWidth |-> arrayWidth, streamLength |-> streamLength, cycleCount |-> 0]

\* completeCycle without the latency of the skew
completeCycle_noSkew(ctl) == (ctl.arrayWidth - 1) + ctl.streamLength

\* completeCycle one cycle early
completeCycle_early(ctl) == (2 * ctl.arrayWidth - 2) + ctl.streamLength

completeCycle(ctl) == (2 * ctl.arrayWidth - 1) + ctl.streamLength

\* Y_memWriteEnable without the upper end of the window
Y_memWriteEnable_open(ctl) == ctl.cycleCount >= completeCycle(ctl)

Y_memWriteEnable(ctl) ==
  ctl.cycleCount >= completeCycle(ctl) /\ ctl.cycleCount < completeCycle(ctl) + ctl.arrayWidth

\* Y_memWriteAddress counting up from 0
Y_memWriteAddress_up(ctl) == ctl.cycleCount - completeCycle(ctl)

Y_memWriteAddress(ctl) == (ctl.arrayWidth - 1) - (ctl.cycleCount - completeCycle(ctl))

\* movesOutputDown limited to the N cycles of the drain
movesOutputDown_window(ctl) ==
  ctl.cycleCount >= completeCycle(ctl) /\ ctl.cycleCount < completeCycle(ctl) + ctl.arrayWidth

movesOutputDown(ctl) == ctl.cycleCount >= completeCycle(ctl)

\* produceControlSignals with the read window of the input memories one cycle too long
produceControlSignals_readLate(ctl) ==
  [X_memReadEnable |-> ctl.cycleCount <= ctl.streamLength,
   X_memReadAddress |-> ctl.cycleCount,
   W_memReadEnable |-> ctl.cycleCount <= ctl.streamLength,
   W_memReadAddress |-> ctl.cycleCount,
   Y_memWriteEnable |-> Y_memWriteEnable(ctl),
   Y_memWriteAddress |-> Y_memWriteAddress(ctl),
   movesOutputDown |-> movesOutputDown(ctl)]

produceControlSignals(ctl) ==
  [X_memReadEnable |-> ctl.cycleCount < ctl.streamLength,
   X_memReadAddress |-> ctl.cycleCount,
   W_memReadEnable |-> ctl.cycleCount < ctl.streamLength,
   W_memReadAddress |-> ctl.cycleCount,
   Y_memWriteEnable |-> Y_memWriteEnable(ctl),
   Y_memWriteAddress |-> Y_memWriteAddress(ctl),
   movesOutputDown |-> movesOutputDown(ctl)]

Controller_update(ctl) == [ctl EXCEPT !.cycleCount = ctl.cycleCount + 1]

(* ------------------------------ top level ------------------------------ *)

\* TopLevel_constructor without the check that the array is square
TopLevel_constructor_noSquare(X_row_count, X_col_count, W_row_count, W_col_count, systolic_row_count, systolic_col_count) ==
  IF X_col_count # W_row_count
  THEN [err |-> DimensionMismatch, arrayWidth |-> 0, streamLength |-> 0, submodules |-> Null]
  ELSE IF X_row_count # systolic_row_count \/ W_col_count # systolic_col_count
  THEN [err |-> DimensionMismatch, arrayWidth |-> 0, streamLength |-> 0, submodules |-> Null]
  ELSE [err |-> NoError,
        arrayWidth |-> systolic_row_count,
        streamLength |-> X_col_count,
        submodules |->
          [X_mem |-> MatrixRAM(X_col_count, X_row_count, SymbolicMatrixElement("X", 0, 0), TRUE),
           W_mem |-> MatrixRAM(W_row_count, W_col_count, SymbolicMatrixElement("W", 0, 0), FALSE),
           Y_mem |-> MatrixRAM(systolic_row_count, systolic_row_count, ConstantInteger(0), FALSE),
           X_delay |-> DelayRegisterTriangle(systolic_row_count - 1),
           W_delay |-> DelayRegisterTriangle(systolic_row_count - 1),
           systolicArray |-> OutputStationarySystolicArray(systolic_row_count),
           controller |-> OutputStationaryController(systolic_row_count, X_col_count)]]

\* OutputStationaryTopLevel constructor: [err, arrayWidth, streamLength, submodules];
\* a throw happens before any field is assigned.
TopLevel_constructor(X_row_count, X_col_count, W_row_count, W_col_count, systolic_row_count, systolic_col_count) ==
  IF X_col_count # W_row_count
  THEN [err |-> DimensionMismatch, arrayWidth |-> 0, streamLength |-> 0, submodules |-> Null]
  ELSE IF X_row_count # systolic_row_count \/ W_col_count # systolic_col_count
  THEN [err |-> DimensionMismatch, arrayWidth |-> 0, streamLength |-> 0, submodules |-> Null]
  ELSE IF systolic_row_count # systolic_col_count
  THEN [err |-> DimensionMismatch, arrayWidth |-> 0, streamLength |-> 0, submodules |-> Null]
  ELSE [err |-> NoError,
        arrayWidth |-> systolic_row_count,
        streamLength |-> X_col_count,
        submodules |->
          [X_mem |-> MatrixRAM(X_col_count, X_row_count, SymbolicMatrixElement("X", 0, 0), TRUE),
           W_mem |-> MatrixRAM(W_row_count, W_col_count, SymbolicMatrixElement("W", 0, 0), FALSE),
           Y_mem |-> MatrixRAM(systolic_row_count, systolic_row_count, ConstantInteger(0), FALSE),
           X_delay |-> DelayRegisterTriangle(systolic_row_count - 1),
           W_delay |-> DelayRegisterTriangle(systolic_row_count - 1),
           systolicArray |-> OutputStationarySystolicArray(systolic_row_count),
           controller |-> OutputStationaryController(systolic_row_count, X_col_count)]]

\* OutputStationaryTopLevel.update: [err, sub].  The steps run in the order of the
\* source; a throwing step keeps what the earlier steps have already changed.
TopLevel_update(aw, sub) ==
  LET controls == produceControlSignals(sub.controller)
      s1 == [sub EXCEPT !.controller = Controller_update(sub.controller)]
      rx == IF controls.X_memReadEnable
            THEN readRow(s1.X_mem, controls.X_memReadAddress, 0, aw)
            ELSE [err |-> NoError, row |-> Filled(aw, ConstantInteger(0))]
      rw == IF controls.W_memReadEnable
            THEN readRow(s1.W_mem, controls.W_memReadAddress, 0, aw)
            ELSE [err |-> NoError, row |-> Filled(aw, ConstantInteger(0))]
      X_in == rx.row
      W_in == rw.row
      xo == Delay_produce_output(s1.X_delay, X_in)
      xu == Delay_update(s1.X_delay, X_in)
      s2 == [s1 EXCEPT !.X_delay = xu.d]
      wo == Delay_produce_output(s2.W_delay, W_in)
      wu == Delay_update(s2.W_delay, W_in)
      s3 == [s2 EXCEPT !.W_delay = wu.d]
      Y_out == SystolicArray_produce_output(s3.systolicArray,
                                            [movesOutputDown |-> controls.movesOutputDown])
      yw == IF controls.Y_memWriteEnable
            THEN writeRow(s3.Y_mem, controls.Y_memWriteAddress, 0, aw, Y_out)
            ELSE [err |-> NoError, mem |-> s3.Y_mem]
      s4 == [s3 EXCEPT !.Y_mem = yw.mem]
      au == SystolicArray_update(s4.systolicArray, xo.output, wo.output,
                                 [movesOutputDown |-> controls.movesOutputDown])
      s5 == [s4 EXCEPT !.systolicArray = au.sa]
  IN IF rx.err # NoError THEN [err |-> rx.err, sub |-> s1]
     ELSE IF rw.err # NoError THEN [err |-> rw.err, sub |-> s1]
     ELSE IF xo.err # NoError THEN [err |-> xo.err, sub |-> s1]
     ELSE IF xu.err # NoError THEN [err |-> xu.err, sub |-> s1]
     ELSE IF wo.err # NoError THEN [err |-> wo.err, sub |-> s2]
     ELSE IF wu.err # NoError THEN [err |-> wu.err, sub |-> s2]
     ELSE IF yw.err # NoError THEN [err |-> yw.err, sub |-> s3]
     ELSE IF au.err # NoError THEN [err |-> au.err, sub |-> s5]
     ELSE [err |-> NoError, sub |-> s5]

\* OutputStationaryTopLevel.dump_state
dump_state(sub) ==
  [regs |->
     [X_mem |-> [c \in DOMAIN sub.X_mem.cells |-> toString(sub.X_mem.cells[c])],
      W_mem |-> [c \in DOMAIN sub.W_mem.cells |-> toString(sub.W_mem.cells[c])],
      Y_mem |-> [c \in DOMAIN sub.Y_mem.cells |-> toString(sub.Y_mem.cells[c])],
      X_delay |-> [i \in DOMAIN sub.X_delay.registers |->
                     [j \in DOMAIN sub.X_delay.registers[i] |->
                        toString(sub.X_delay.registers[i][j])]],
      W_delay |-> [i \in DOMAIN sub.W_delay.registers |->
                     [j \in DOMAIN sub.W_delay.registers[i] |->
                        toString(sub.W_delay.registers[i][j])]],
      systolicArray |-> [i \in DOMAIN sub.systolicArray.array |->
                           [j \in DOMAIN sub.systolicArray.array[i] |->
                              [X |-> toString(sub.systolicArray.array[i][j].X),
                               W |-> toString(sub.systolicArray.array[i][j].W),
                               Acc |-> toString(sub.systolicArray.array[i][j].Acc)]]],
      controls |-> [cycleCount |-> sub.controller.cycleCount]],
   wires |-> [controlSignals |-> produceControlSignals(sub.controller)]]

\* defaultCycles without the cycles of the drain
defaultCycles_noDrain(aw, sl) == 2 * aw + sl

\* simulate: the cycle count a call runs (null selects the default)
defaultCycles(aw, sl) == 3 * aw + sl

resolveCycles(arg, aw, sl) == IF arg.isNull THEN defaultCycles(aw, sl) ELSE arg.n

(* ------------------------------- state --------------------------------- *)

VARIABLES
  pc,            \* "new", "ready", "dump", "update", "failed": where the caller is
  err,           \* the error the last operation threw, or NoError
  args,          \* the arguments the constructor was called with
  arrayWidth,    \* this.arrayWidth
  streamLength,  \* this.streamLength
  submodules,    \* this.submodules
  calls,         \* simulate calls made so far
  arg,           \* the argument of the current / last simulate call
  startCycle,    \* cycleCount when the current / last simulate call started
  numCycles,     \* simulate: numCycles after the null check
  loop_i,        \* simulate: the loop index i
  states,        \* simulate: the states array (Null marks a slot not yet assigned)
  pe,            \* stand-alone PE: this.regs
  pe_err,        \* stand-alone PE: what the last update call threw, "nocall" before the first call
  dl,            \* stand-alone delay triangle: N and this.registers
  dl_err,        \* stand-alone delay triangle: what the last call threw, "nocall" before the first
  dl_in,         \* stand-alone delay triangle: the input vector of the last call
  dl_out,        \* stand-alone delay triangle: what the last produce_output returned
  dl_hist,       \* stand-alone delay triangle: the input vectors of the cycles so far
  ram,           \* stand-alone memory: row_count, col_count and this.cells
  ram_err,       \* stand-alone memory: what the last call threw, "nocall" before the first
  ram_call,      \* stand-alone memory: the last call, its arguments and what it returned
  panelArrayWidth,    \* SimulationPanel: the state arrayWidth
  panelStreamLength,  \* SimulationPanel: the state streamLength
  jsonDataLength,     \* SimulationPanel: jsonData.length
  currentCycle,       \* SimulationPanel: the state currentCycle
  isPlaying,          \* SimulationPanel: the state isPlaying
  intervalId,         \* SimulationPanel: the state intervalId (0 is null)
  timers,             \* the intervals not yet cleared: id and the jsonData.length their callback closed over
  timerCount,         \* how many intervals were created so far
  pendingEffect       \* the effect of the last render, until it has run

vars == <<pc, err, args, arrayWidth, streamLength, submodules, calls, arg, startCycle,
          numCycles, loop_i, states, pe, pe_err, dl, dl_err, dl_in, dl_out, dl_hist,
          ram, ram_err, ram_call, panelArrayWidth, panelStreamLength, jsonDataLength,
          currentCycle, isPlaying, intervalId, timers, timerCount, pendingEffect>>

topVars == <<pc, err, args, arrayWidth, streamLength, submodules, calls, arg, startCycle,
             numCycles, loop_i, states>>

topVarsButPc == <<err, args, arrayWidth, streamLength, submodules, calls, arg, startCycle,
                  numCycles, loop_i, states>>

peVars == <<pe, pe_err>>

dlVars == <<dl, dl_err, dl_in, dl_out, dl_hist>>

ramVars == <<ram, ram_err, ram_call>>

panelVars == <<panelArrayWidth, panelStreamLength, jsonDataLength, currentCycle, isPlaying,
               intervalId, timers, timerCount, pendingEffect>>

\* The variables of the stand-alone units other than the PE.
unitVars == <<dlVars, ramVars, panelVars>>

\* No top level, no stand-alone PE, no stand-alone delay triangle was made.
TopIdle ==
  /\ err = NoError
  /\ args = Null
  /\ arrayWidth = 0
  /\ streamLength = 0
  /\ submodules = Null
  /\ calls = 0
  /\ arg = Null
  /\ startCycle = 0
  /\ numCycles = 0
  /\ loop_i = 0
  /\ states = <<>>

PEIdle == pe = Null /\ pe_err = "nocall"

DelayIdle ==
  /\ dl = Null
  /\ dl_err = "nocall"
  /\ dl_in = Null
  /\ dl_out = Null
  /\ dl_hist = <<>>

RamIdle ==
  /\ ram = Null
  /\ ram_err = "nocall"
  /\ ram_call = Null

\* No effect is waiting to run.
NoEffect == [pending |-> FALSE, currentCycle |-> 0, jsonDataLength |-> 0, intervalId |-> 0]

PanelIdle ==
  /\ panelArrayWidth = 0
  /\ panelStreamLength = 0
  /\ jsonDataLength = 0
  /\ currentCycle = 0
  /\ isPlaying = FALSE
  /\ intervalId = 0
  /\ timers = {}
  /\ timerCount = 0
  /\ pendingEffect = NoEffect

Dims == 1..MaxDim

\* simulate's argument: null or a number of cycles
SimArgs(aw, sl) ==
  {[isNull |-> TRUE, n |-> 0]}
    \cup {[isNull |-> FALSE, n |-> n] : n \in 0..(defaultCycles(aw, sl) + MaxExtraCycles)}

MaxCycle(aw, sl) == defaultCycles(aw, sl) + MaxExtraCycles

(* --------------------------- top-level actions ------------------------- *)

Init ==
  /\ pc = "new"
  /\ err = NoError
  /\ args = Null
  /\ arrayWidth = 0
  /\ streamLength = 0
  /\ submodules = Null
  /\ calls = 0
  /\ arg = Null
  /\ startCycle = 0
  /\ numCycles = 0
  /\ loop_i = 0
  /\ states = <<>>
  /\ pe = Null
  /\ pe_err = "nocall"
  /\ DelayIdle
  /\ RamIdle
  /\ PanelIdle

\* new OutputStationaryTopLevel(...)
Construct ==
  /\ pc = "new"
  /\ \E xr \in Dims, xc \in Dims, wr \in Dims, wc \in Dims, sr \in Dims, sc \in Dims :
       LET r == TopLevel_constructor(xr, xc, wr, wc, sr, sc)
       IN /\ args' = [X_row_count |-> xr, X_col_count |-> xc, W_row_count |-> wr,
                      W_col_count |-> wc, systolic_row_count |-> sr,
                      systolic_col_count |-> sc]
          /\ err' = r.err
          /\ pc' = IF r.err = NoError THEN "ready" ELSE "failed"
          /\ arrayWidth' = r.arrayWidth
          /\ streamLength' = r.streamLength
          /\ submodules' = r.submodules
  /\ UNCHANGED <<calls, arg, startCycle, numCycles, loop_i, states, pe, pe_err, unitVars>>

\* simulate(numCycles): the null check and the allocation of the states array
Simulate ==
  /\ pc = "ready"
  /\ calls < MaxCalls
  /\ \E a \in SimArgs(arrayWidth, streamLength) :
       LET n == resolveCycles(a, arrayWidth, streamLength)
       IN /\ submodules.controller.cycleCount + n <= MaxCycle(arrayWidth, streamLength)
          /\ arg' = a
          /\ numCycles' = n
          /\ states' = Filled(n, Null)
  /\ calls' = calls + 1
  /\ startCycle' = submodules.controller.cycleCount
  /\ loop_i' = 0
  /\ pc' = "dump"
  /\ UNCHANGED <<err, args, arrayWidth, streamLength, submodules, pe, pe_err, unitVars>>

\* DumpState with the two statements of the loop body swapped: the snapshot shows the
\* state after this cycle's update
DumpState_afterUpdate ==
  /\ pc = "dump"
  /\ loop_i < numCycles
  /\ states' = [states EXCEPT
                  ![loop_i] = dump_state(TopLevel_update(arrayWidth, submodules).sub)]
  /\ pc' = "update"
  /\ UNCHANGED <<err, args, arrayWidth, streamLength, submodules, calls, arg, startCycle,
                 numCycles, loop_i, pe, pe_err, unitVars>>

\* simulate, loop body, first statement: states[i] = this.dump_state()
DumpState ==
  /\ pc = "dump"
  /\ loop_i < numCycles
  /\ states' = [states EXCEPT ![loop_i] = dump_state(submodules)]
  /\ pc' = "update"
  /\ UNCHANGED <<err, args, arrayWidth, streamLength, submodules, calls, arg, startCycle,
                 numCycles, loop_i, pe, pe_err, unitVars>>

\* Update as it acts when dump_state stores the live cell array of Y_mem in the
\* snapshot instead of a copy: every snapshot taken so far shows the cells after the
\* update
Update_liveSnapshots ==
  /\ pc = "update"
  /\ LET r == TopLevel_update(arrayWidth, submodules)
     IN /\ submodules' = r.sub
        /\ err' = r.err
        /\ pc' = IF r.err = NoError THEN "dump" ELSE "failed"
        /\ loop_i' = IF r.err = NoError THEN loop_i + 1 ELSE loop_i
        /\ states' = [k \in DOMAIN states |->
                        IF states[k] = Null THEN Null
                        ELSE [states[k] EXCEPT !.regs.Y_mem = dump_state(r.sub).regs.Y_mem]]
  /\ UNCHANGED <<args, arrayWidth, streamLength, calls, arg, startCycle, numCycles,
                 pe, pe_err, unitVars>>

\* simulate, loop body, second statement: this.update(); i++
Update ==
  /\ pc = "update"
  /\ LET r == TopLevel_update(arrayWidth, submodules)
     IN /\ submodules' = r.sub
        /\ err' = r.err
        /\ pc' = IF r.err = NoError THEN "dump" ELSE "failed"
        /\ loop_i' = IF r.err = NoError THEN loop_i + 1 ELSE loop_i
  /\ UNCHANGED <<args, arrayWidth, streamLength, calls, arg, startCycle, numCycles,
                 states, pe, pe_err, unitVars>>

\* simulate: the loop condition fails, return states
Return ==
  /\ pc = "dump"
  /\ ~(loop_i < numCycles)
  /\ pc' = "ready"
  /\ UNCHANGED <<err, args, arrayWidth, streamLength, submodules, calls, arg, startCycle,
                 numCycles, loop_i, states, pe, pe_err, unitVars>>

Next == Construct \/ Simulate \/ DumpState \/ Update \/ Return

Spec == Init /\ [][Next]_vars

(* --------------------------- stand-alone PE ---------------------------- *)

MatrixNames == {"X", "W"}

\* The values a caller hands to a PE: the zero constant, a non-zero constant and
\* matrix elements of either matrix.
PEValues ==
  {ConstantInteger(0), ConstantInteger(1)}
    \cup {SymbolicMatrixElement(m, i, j) : m \in MatrixNames, i \in 0..MaxI, j \in 0..MaxJ}

\* new OutputStationaryPE()
InitPE ==
  /\ pe = OutputStationaryPE
  /\ pe_err = "nocall"
  /\ pc = "pe"
  /\ err = NoError
  /\ args = Null
  /\ arrayWidth = 0
  /\ streamLength = 0
  /\ submodules = Null
  /\ calls = 0
  /\ arg = Null
  /\ startCycle = 0
  /\ numCycles = 0
  /\ loop_i = 0
  /\ states = <<>>
  /\ DelayIdle
  /\ RamIdle
  /\ PanelIdle

\* pe.update({X_in, W_in}); every error is fatal to the run, so a PE that threw is
\* not called again
PEUpdate ==
  /\ pc = "pe"
  /\ pe_err \in {"nocall", NoError}
  /\ \E X_in \in PEValues, W_in \in PEValues :
       LET inValues == [X_in |-> X_in, W_in |-> W_in]
           r == PE_update(pe, inValues)
       IN /\ pe' = r.regs
          /\ pe_err' = r.err
  /\ UNCHANGED <<topVars, unitVars>>

NextPE == PEUpdate

SpecPE == InitPE /\ [][NextPE]_vars

(* ---------------------- stand-alone delay triangle --------------------- *)

\* The input vectors a caller hands to a triangle of depth N in cycle t: all zero, the
\* elements of column t of X or of W, or elements in the odd slots only.
DelayInputs(N, t) ==
  {Filled(N + 1, ConstantInteger(0)),
   [i \in 0..N |-> SymbolicMatrixElement("X", i, t)],
   [i \in 0..N |-> SymbolicMatrixElement("W", i, t)],
   [i \in 0..N |-> IF i % 2 = 1 THEN SymbolicMatrixElement("X", i, t)
                    ELSE ConstantInteger(0)]}

\* Input vectors of a length other than N + 1.
BadDelayInputs(N) ==
  {Filled(n, ConstantInteger(1)) : n \in (0..(N + 2)) \ {N + 1}}

\* new DelayRegisterTriangle(N)
InitDelay ==
  /\ \E N \in 0..MaxDepth : dl = DelayRegisterTriangle(N)
  /\ dl_err = "nocall"
  /\ dl_in = Null
  /\ dl_out = Null
  /\ dl_hist = <<>>
  /\ pc = "produce_output"
  /\ TopIdle
  /\ PEIdle
  /\ RamIdle
  /\ PanelIdle

\* dl.produce_output(input), the first call of a cycle; every error is fatal to the
\* run, so a triangle that threw is not called again
DelayProduceOutput ==
  /\ pc = "produce_output"
  /\ Len(dl_hist) < MaxDelayCycles
  /\ \E input \in DelayInputs(dl.N, Len(dl_hist)) \cup BadDelayInputs(dl.N) :
       LET r == Delay_produce_output(dl, input)
       IN /\ dl_in' = input
          /\ dl_err' = r.err
          /\ dl_out' = r.output
          /\ dl_hist' = IF r.err = NoError THEN Append(dl_hist, input) ELSE dl_hist
          /\ pc' = IF r.err = NoError THEN "delay_update" ELSE "delay_failed"
  /\ UNCHANGED <<dl, topVarsButPc, peVars, ramVars, panelVars>>

\* dl.update(input), the second call of a cycle, with the input of the cycle or with a
\* vector of another length
DelayUpdate ==
  /\ pc = "delay_update"
  /\ \E input \in {dl_hist[Len(dl_hist)]} \cup BadDelayInputs(dl.N) :
       LET r == Delay_update(dl, input)
       IN /\ dl_in' = input
          /\ dl_err' = r.err
          /\ dl' = r.d
          /\ pc' = IF r.err = NoError THEN "produce_output" ELSE "delay_failed"
  /\ UNCHANGED <<dl_out, dl_hist, topVarsButPc, peVars, ramVars, panelVars>>

NextDelay == DelayProduceOutput \/ DelayUpdate

SpecDelay == InitDelay /\ [][NextDelay]_vars

(* ------------------------- stand-alone memory -------------------------- *)

\* The first values a caller hands to the constructor, and the row a caller writes:
\* element i of the row is tagged with i.
RamFirstValues == {ConstantInteger(0), SymbolicMatrixElement("M", 0, 0)}

RamRow(element_count) == [i \in 0..(element_count - 1) |-> SymbolicMatrixElement("R", 0, i)]

\* new MatrixRAM(row_count, col_count, first_value, transposed)
InitRam ==
  /\ \E row_count \in 1..MaxRamDim, col_count \in 1..MaxRamDim :
       \E first_value \in RamFirstValues, transposed \in BOOLEAN :
         ram = MatrixRAM(row_count, col_count, first_value, transposed)
  /\ ram_err = "nocall"
  /\ ram_call = Null
  /\ pc = "ram_new"
  /\ TopIdle
  /\ PEIdle
  /\ DelayIdle
  /\ PanelIdle

\* ram.readRow(row_index, col_offset, element_count), as the first call or following a
\* successful writeRow; every error is fatal to the run
RamReadRow ==
  /\ pc \in {"ram_new", "ram_written"}
  /\ \E row_index \in (-1)..ram.row_count, col_offset \in (-1)..ram.col_count,
        element_count \in 0..(ram.col_count + 1) :
       LET r == readRow(ram, row_index, col_offset, element_count)
       IN /\ ram_err' = r.err
          /\ ram_call' = [op |-> "readRow", row_index |-> row_index,
                          col_offset |-> col_offset, element_count |-> element_count,
                          row |-> Null, out |-> r.row]
          /\ pc' = IF r.err = NoError THEN "ram_read" ELSE "ram_failed"
  /\ UNCHANGED <<ram, topVarsButPc, peVars, dlVars, panelVars>>

\* ram.writeRow(row_index, col_offset, element_count, row) on the new memory
RamWriteRow ==
  /\ pc = "ram_new"
  /\ \E row_index \in (-1)..ram.row_count, col_offset \in (-1)..ram.col_count,
        element_count \in 0..(ram.col_count + 1) :
       LET r == writeRow(ram, row_index, col_offset, element_count, RamRow(element_count))
       IN /\ ram' = r.mem
          /\ ram_err' = r.err
          /\ ram_call' = [op |-> "writeRow", row_index |-> row_index,
                          col_offset |-> col_offset, element_count |-> element_count,
                          row |-> RamRow(element_count), out |-> Null]
          /\ pc' = IF r.err = NoError THEN "ram_written" ELSE "ram_failed"
  /\ UNCHANGED <<topVarsButPc, peVars, dlVars, panelVars>>

NextRam == RamReadRow \/ RamWriteRow

SpecRam == InitRam /\ [][NextRam]_vars

(* ------------------------------ properties ---------------------------- *)

\* A top level exists (its constructor did not throw).
Constructed == submodules # Null

\* Cycles completed so far by the top level.
cycle == submodules.controller.cycleCount

\* The first cycle of the drain, (2N - 1) + L.
drainStart == (2 * arrayWidth - 1) + streamLength

Rows == 0..(arrayWidth - 1)

Ycell(i, j) == submodules.Y_mem.cells[i * arrayWidth + j]

PEreg(i, j) == submodules.systolicArray.array[i][j]

\* The top level as it is after k completed updates of a fresh construction.
RECURSIVE StateAfter(_)
StateAfter(k) ==
  IF k = 0
  THEN TopLevel_constructor(args.X_row_count, args.X_col_count, args.W_row_count,
                            args.W_col_count, args.systolic_row_count,
                            args.systolic_col_count).submodules
  ELSE TopLevel_update(arrayWidth, StateAfter(k - 1)).sub

\* The slots of the states array that have been assigned.
Taken == {k \in DOMAIN states : states[k] # Null}

\* C1 - drain completeness: once a top level of width N and stream length L has run
\* 3N + L cycles, every cell of Y_mem is a partial sum with count L.
C1_DrainComplete ==
  (Constructed /\ cycle >= 3 * arrayWidth + streamLength)
    => \A c \in DOMAIN submodules.Y_mem.cells :
         /\ isSymbolicPartialSum(submodules.Y_mem.cells[c])
         /\ submodules.Y_mem.cells[c].N = streamLength

C1_Witness ==
  /\ Constructed
  /\ pc = "ready" /\ calls = 1 /\ arg.isNull
  /\ arrayWidth >= 2 /\ streamLength >= 2 /\ arrayWidth # streamLength
  /\ cycle = 3 * arrayWidth + streamLength
  /\ Ycell(arrayWidth - 1, 0) = SymbolicPartialSum("X", "W", arrayWidth - 1, 0, streamLength)
  /\ Ycell(0, arrayWidth - 1) = SymbolicPartialSum("X", "W", 0, arrayWidth - 1, streamLength)

\* C2 - reduction identity: a partial sum held by cell (i, j) of Y_mem is a sum over X and
\* W with row index i and column index j.
C2_ReductionIdentity ==
  Constructed
    => \A i \in Rows, j \in Rows :
         isSymbolicPartialSum(Ycell(i, j))
           => /\ Ycell(i, j).leftMatrixName = "X"
              /\ Ycell(i, j).rightMatrixName = "W"
              /\ Ycell(i, j).i = i
              /\ Ycell(i, j).j = j

\* Mid-drain: the bottom row has been written, the top row not yet.
C2_Witness ==
  /\ Constructed
  /\ arrayWidth >= 2
  /\ cycle = drainStart + 1
  /\ isSymbolicPartialSum(Ycell(arrayWidth - 1, 0))
  /\ Ycell(arrayWidth - 1, 0).i = arrayWidth - 1
  /\ isConstantZero(Ycell(0, 0))

\* C3 - before drainStart every cell of Y_mem is the zero constant.
C3_NoWriteBeforeDrain ==
  (Constructed /\ cycle < drainStart)
    => \A c \in DOMAIN submodules.Y_mem.cells : isConstantZero(submodules.Y_mem.cells[c])

\* The cycle before the drain: the array holds sums, Y_mem holds none.
C3_Witness ==
  /\ Constructed
  /\ arrayWidth >= 2 /\ streamLength >= 2
  /\ cycle = drainStart - 1
  /\ isSymbolicPartialSum(PEreg(arrayWidth - 1, 0).Acc)
  /\ \A c \in DOMAIN submodules.Y_mem.cells : isConstantZero(submodules.Y_mem.cells[c])

\* The dimension contract is violated by the constructor's arguments.
Mismatch ==
  \/ args.X_col_count # args.W_row_count
  \/ args.X_row_count # args.systolic_row_count
  \/ args.W_col_count # args.systolic_col_count
  \/ args.systolic_row_count # args.systolic_col_count

\* C4 - the constructor fails with DimensionMismatch and builds nothing exactly when the
\* inner dimensions differ, a factor does not match the array, or the array is not square.
C4_DimensionLaw ==
  (args # Null)
    => /\ Mismatch => /\ pc = "failed"
                      /\ err = DimensionMismatch
                      /\ submodules = Null
       /\ ~Mismatch => /\ Constructed
                       /\ err # DimensionMismatch
                       /\ arrayWidth = args.systolic_row_count
                       /\ streamLength = args.X_col_count

\* Only the squareness check rejects these arguments.
C4_Witness ==
  /\ args # Null
  /\ args.X_col_count = args.W_row_count
  /\ args.X_row_count = args.systolic_row_count
  /\ args.W_col_count = args.systolic_col_count
  /\ args.systolic_row_count # args.systolic_col_count
  /\ pc = "failed" /\ err = DimensionMismatch /\ submodules = Null

\* The cycle count the current / last simulate call was asked for.
Requested == IF arg.isNull THEN 3 * arrayWidth + streamLength ELSE arg.n

\* What a returned simulate call leaves behind.
Returned ==
  (pc = "ready" /\ calls > 0)
    => /\ Length(states) = Requested
       /\ Taken = 0..(Requested - 1)
       /\ cycle = startCycle + Requested
       /\ \A k \in Taken : states[k].regs.controls.cycleCount = startCycle + k

\* Inside a call the loop index never passes numCycles and counts the cycles run.
LoopBounded ==
  (pc \in {"dump", "update"})
    => /\ numCycles = Requested
       /\ loop_i <= numCycles
       /\ (pc = "update" => loop_i < numCycles)
       /\ cycle = startCycle + loop_i

\* Every step of the loop moves on: an update never throws and advances i by one, a
\* snapshot is followed by its update, and the loop exits when i reaches numCycles.
LoopStep ==
  /\ (pc = "update") => (pc' = "dump" /\ loop_i' = loop_i + 1)
  /\ (pc = "dump" /\ loop_i < numCycles) => (pc' = "update" /\ loop_i' = loop_i)
  /\ (pc = "dump" /\ loop_i >= numCycles) => (pc' = "ready")

\* C5 - simulate terminates (numCycles - i is a variant of its loop: it is never
\* negative, every iteration lowers it by one without throwing, and the call returns
\* when it is 0); simulate(null) runs 3N + L cycles and simulate(n) runs n, and the
\* call returns one snapshot per cycle, in cycle order.
C5_SimulateTerminates ==
  /\ []Returned
  /\ []LoopBounded
  /\ [][LoopStep]_vars

C5_Witness ==
  /\ pc = "ready" /\ calls = 1 /\ arg.isNull
  /\ arrayWidth >= 2 /\ arrayWidth # streamLength
  /\ Length(states) = 3 * arrayWidth + streamLength
  /\ cycle = 3 * arrayWidth + streamLength

\* Every snapshot taken so far reports its own cycle and that cycle's control signals;
\* the snapshot just taken is the dump of the state after exactly startCycle + i updates
\* of a fresh top level; a fresh run shows all registers "0" in snapshot 0 and X[0][k-1]
\* in PE(0,0).X in snapshot k while the stream lasts.
SnapshotsBeforeUpdate ==
  (pc \in {"ready", "dump", "update"} /\ calls > 0)
    => /\ \A k \in Taken :
            /\ states[k].regs.controls.cycleCount = startCycle + k
            /\ states[k].wires.controlSignals =
                 produceControlSignals([arrayWidth |-> arrayWidth,
                                        streamLength |-> streamLength,
                                        cycleCount |-> startCycle + k])
            /\ (startCycle = 0 /\ k >= 1 /\ k <= streamLength)
                 => states[k].regs.systolicArray[0][0].X = "X_{0" \o ToString(k - 1) \o "}"
            /\ (startCycle = 0 /\ k = 0)
                 => /\ \A i \in Rows, j \in Rows :
                         states[0].regs.systolicArray[i][j]
                           = [X |-> "0", W |-> "0", Acc |-> "0"]
                    /\ \A i \in DOMAIN states[0].regs.X_delay :
                         \A j \in DOMAIN states[0].regs.X_delay[i] :
                           /\ states[0].regs.X_delay[i][j] = "0"
                           /\ states[0].regs.W_delay[i][j] = "0"
       /\ (pc = "update")
            => /\ loop_i \in Taken
               /\ cycle = startCycle + loop_i
               /\ states[loop_i] = dump_state(StateAfter(startCycle + loop_i))

\* Taking a snapshot changes nothing of the top level, and no step of a call changes a
\* snapshot the call has already taken.
SnapshotStep ==
  /\ (pc = "dump" /\ pc' = "update") => submodules' = submodules
  /\ (pc \in {"dump", "update"}) => \A k \in Taken : states'[k] = states[k]

\* C6 - snapshot k is taken before cycle k's update (cycleCount k, the signals of cycle
\* k, the contents after exactly k updates, all registers "0" in snapshot 0), and taking
\* a snapshot does not advance the cycle counter or change anything else.
C6_SnapshotBeforeUpdate ==
  /\ []SnapshotsBeforeUpdate
  /\ [][SnapshotStep]_vars

C6_Witness ==
  /\ pc = "update" /\ calls = 1 /\ startCycle = 0
  /\ arrayWidth >= 2
  /\ loop_i = drainStart
  /\ loop_i \in Taken
  /\ states[loop_i].regs.controls.cycleCount = drainStart
  /\ states[loop_i].wires.controlSignals.movesOutputDown
  /\ states[0].regs.systolicArray[0][0].X = "0"
  /\ states[1].regs.systolicArray[0][0].X = "X_{00}"

\* The scenario N = 2, L = 2: a fresh 2 x 2 top level whose simulate(null) has returned.
Scenario22 ==
  /\ args = [X_row_count |-> 2, X_col_count |-> 2, W_row_count |-> 2, W_col_count |-> 2,
             systolic_row_count |-> 2, systolic_col_count |-> 2]
  /\ pc = "ready" /\ calls = 1 /\ arg.isNull

\* Snapshot 0 shows every PE, delay and output register as "0".
Snapshot0Zero ==
  /\ \A i \in Rows, j \in Rows :
       states[0].regs.systolicArray[i][j] = [X |-> "0", W |-> "0", Acc |-> "0"]
  /\ \A i \in DOMAIN states[0].regs.X_delay :
       \A j \in DOMAIN states[0].regs.X_delay[i] :
         states[0].regs.X_delay[i][j] = "0" /\ states[0].regs.W_delay[i][j] = "0"
  /\ \A c \in DOMAIN states[0].regs.Y_mem : states[0].regs.Y_mem[c] = "0"

\* What the 8 snapshots of the scenario show apart from the write enable of cycle 7:
\* the read of row 0 in snapshot 0, the drain starting at cycle 5, and the four
\* completed sums (count 2, printed with the upper limit 1) in snapshot 7.
Scenario22Trace ==
  /\ Length(states) = 8
  /\ Taken = 0..7
  /\ Snapshot0Zero
  /\ states[0].wires.controlSignals.X_memReadEnable
  /\ states[0].wires.controlSignals.X_memReadAddress = 0
  /\ \A k \in 0..7 : states[k].wires.controlSignals.movesOutputDown <=> (k >= 5)
  /\ states[7].regs.controls.cycleCount = 7
  /\ states[7].regs.Y_mem =
       [c \in 0..3 |->
          IF c = 0 THEN "\\sum_{0}^{1} X_{0i} W_{i0}"
          ELSE IF c = 1 THEN "\\sum_{0}^{1} X_{0i} W_{i1}"
          ELSE IF c = 2 THEN "\\sum_{0}^{1} X_{1i} W_{i0}"
          ELSE "\\sum_{0}^{1} X_{1i} W_{i1}"]

\* C7 as stated - in the scenario N = 2, L = 2 the run has 8 cycles, snapshot 0 is all
\* zero with the X read enabled at address 0, drainStart is 5, and at cycle 7
\* Y_memWriteEnable is true and the four output cells hold sums with count 2.
C7_Scenario_AsStated ==
  Scenario22
    => /\ Scenario22Trace
       /\ states[7].wires.controlSignals.Y_memWriteEnable

\* C7 amended - as above, but Y_memWriteEnable is true at the cycles 5 and 6 only and
\* is false again at cycle 7, where the four output cells already hold their sums.
C7_Scenario ==
  Scenario22
    => /\ Scenario22Trace
       /\ \A k \in 0..7 : states[k].wires.controlSignals.Y_memWriteEnable <=> (k \in {5, 6})

C7_Witness ==
  /\ Scenario22
  /\ Length(states) = 8
  /\ ~states[7].wires.controlSignals.Y_memWriteEnable
  /\ states[6].wires.controlSignals.Y_memWriteEnable
  /\ states[7].regs.Y_mem[3] = "\\sum_{0}^{1} X_{1i} W_{i1}"

\* C8 - skew: X[i][0] is in PE(i,0).X after i + 1 cycles, i cycles after X[0][0] is in
\* PE(0,0).X, and until then every X register of row i is the zero constant; the same
\* for W[0][j], PE(0,j).W and the W registers of column j.
C8_Skew ==
  Constructed
    => \A r \in Rows :
         /\ (cycle <= r) => \A j \in Rows : isConstantZero(PEreg(r, j).X)
         /\ (cycle = r + 1) => PEreg(r, 0).X = SymbolicMatrixElement("X", r, 0)
         /\ (cycle <= r) => \A i \in Rows : isConstantZero(PEreg(i, r).W)
         /\ (cycle = r + 1) => PEreg(0, r).W = SymbolicMatrixElement("W", 0, r)

\* The last row and column receive their first element at cycle N, N - 1 cycles after
\* row and column 0.
C8_Witness ==
  /\ Constructed
  /\ arrayWidth >= 3
  /\ cycle = arrayWidth
  /\ PEreg(arrayWidth - 1, 0).X = SymbolicMatrixElement("X", arrayWidth - 1, 0)
  /\ PEreg(0, arrayWidth - 1).W = SymbolicMatrixElement("W", 0, arrayWidth - 1)
  /\ isConstantZero(PEreg(arrayWidth - 1, 1).X)

\* An X / W pair of matrix elements whose reduction indices are not both the next index
\* expected by the partial sum acc.
Disagrees(x, w, acc) ==
  /\ isSymbolicMatrixElement(x)
  /\ isSymbolicMatrixElement(w)
  /\ (x.j # acc.N \/ w.i # acc.N)

StandAlone == pc = "pe"

WriteEnabledAt(k) == states[k].wires.controlSignals.Y_memWriteEnable
WriteAddressAt(k) == states[k].wires.controlSignals.Y_memWriteAddress

\* C10 - at every cycle c the write enable is true exactly when
\* drainStart <= c < drainStart + N, the enabled write address is N - 1 - (c - drainStart),
\* which lies in 0..N-1, and a run over the whole drain writes every row exactly once.
C10_WriteWindow ==
  Constructed
    => /\ Y_memWriteEnable(submodules.controller)
            <=> (drainStart <= cycle /\ cycle < drainStart + arrayWidth)
       /\ Y_memWriteEnable(submodules.controller)
            => /\ Y_memWriteAddress(submodules.controller)
                    = (arrayWidth - 1) - (cycle - drainStart)
               /\ Y_memWriteAddress(submodules.controller) \in Rows
       /\ \A k \in Taken :
            /\ WriteEnabledAt(k) <=> (drainStart <= startCycle + k
                                      /\ startCycle + k < drainStart + arrayWidth)
            /\ WriteEnabledAt(k)
                 => WriteAddressAt(k) = (arrayWidth - 1) - (startCycle + k - drainStart)
       /\ (pc = "ready" /\ calls > 0 /\ startCycle <= drainStart
           /\ startCycle + numCycles >= drainStart + arrayWidth)
            => \A r \in Rows :
                 Cardinality({k \in Taken : WriteEnabledAt(k) /\ WriteAddressAt(k) = r}) = 1

\* A returned run that went past the drain: the window has closed again.
C10_Witness ==
  /\ Constructed
  /\ pc = "ready" /\ calls = 1
  /\ arrayWidth >= 2
  /\ numCycles > drainStart + arrayWidth
  /\ WriteEnabledAt(drainStart) /\ WriteAddressAt(drainStart) = arrayWidth - 1
  /\ WriteEnabledAt(drainStart + arrayWidth - 1)
  /\ WriteAddressAt(drainStart + arrayWidth - 1) = 0
  /\ ~WriteEnabledAt(drainStart + arrayWidth)
  /\ ~Y_memWriteEnable(submodules.controller)

\* The control signals of the live controller and those a snapshot records.
Signals == produceControlSignals(submodules.controller)
SignalsAt(k) == states[k].wires.controlSignals

\* The read signals s of cycle c: both enables equal and true exactly when c < L, and
\* while enabled both addresses are c, a row of both input memories.
ReadSignalsOf(s, c) ==
  /\ s.X_memReadEnable = s.W_memReadEnable
  /\ s.X_memReadEnable <=> (c < streamLength)
  /\ s.X_memReadEnable
       => /\ s.X_memReadAddress = c
          /\ s.W_memReadAddress = c
          /\ c \in 0..(streamLength - 1)
          /\ c < submodules.X_mem.row_count
          /\ c < submodules.W_mem.row_count

\* C11 - at every cycle c the read enables of the X and of the W memory are equal and
\* true exactly when c < L, the enabled read addresses are both c and lie in 0..L-1,
\* and a run over the whole stream reads each of the L rows exactly once, row r at
\* cycle r.
C11_ReadWindow ==
  Constructed
    => /\ ReadSignalsOf(Signals, cycle)
       /\ submodules.X_mem.row_count = streamLength
       /\ submodules.W_mem.row_count = streamLength
       /\ \A k \in Taken : ReadSignalsOf(SignalsAt(k), startCycle + k)
       /\ (pc = "ready" /\ calls > 0 /\ startCycle = 0 /\ numCycles >= streamLength)
            => \A r \in 0..(streamLength - 1) :
                 /\ {k \in Taken : SignalsAt(k).X_memReadEnable
                                   /\ SignalsAt(k).X_memReadAddress = r} = {r}
                 /\ {k \in Taken : SignalsAt(k).W_memReadEnable
                                   /\ SignalsAt(k).W_memReadAddress = r} = {r}

\* A returned run that went past the stream: the last row was read at cycle L - 1 and
\* the read enables are off from cycle L on.
C11_Witness ==
  /\ Constructed
  /\ pc = "ready" /\ calls = 1
  /\ streamLength >= 2
  /\ numCycles > streamLength
  /\ SignalsAt(streamLength - 1).X_memReadEnable
  /\ SignalsAt(streamLength - 1).W_memReadAddress = streamLength - 1
  /\ ~SignalsAt(streamLength).X_memReadEnable
  /\ ~SignalsAt(streamLength).W_memReadEnable
  /\ ~Signals.X_memReadEnable

\* The evict signal is true exactly from drainStart on, at the live controller and in
\* every snapshot.
EvictFromDrainStart ==
  Constructed
    => /\ Signals.movesOutputDown <=> (cycle >= drainStart)
       /\ \A k \in Taken : SignalsAt(k).movesOutputDown <=> (startCycle + k >= drainStart)

\* No step turns the evict signal off again.
EvictStays ==
  (Constructed /\ movesOutputDown(submodules.controller))
    => movesOutputDown(submodules'.controller)

\* C12 - movesOutputDown is true exactly at the cycles c >= drainStart: false at every
\* cycle before drainStart and, once true, true at every later cycle (also after the
\* N cycles of the drain).
C12_EvictSignal ==
  /\ []EvictFromDrainStart
  /\ [][EvictStays]_vars

\* A returned run that went past the drain: the evict signal is still on although the
\* write window has closed.
C12_Witness ==
  /\ Constructed
  /\ pc = "ready" /\ calls = 1
  /\ numCycles > drainStart + arrayWidth
  /\ ~SignalsAt(drainStart - 1).movesOutputDown
  /\ SignalsAt(drainStart).movesOutputDown
  /\ SignalsAt(drainStart + arrayWidth).movesOutputDown
  /\ ~SignalsAt(drainStart + arrayWidth).Y_memWriteEnable
  /\ Signals.movesOutputDown

\* A step of the engine within one simulate call, or after it has returned, keeps
\* every snapshot taken so far as it is.
SnapshotsKept ==
  (calls' = calls) => \A k \in Taken : k \in DOMAIN states' /\ states'[k] = states[k]

\* After the call has returned, its first snapshot is still the dump of the state the
\* call started from.
FirstSnapshotKept ==
  (pc = "ready" /\ calls > 0 /\ numCycles > 0)
    => states[0] = dump_state(StateAfter(startCycle))

\* C13 - running further cycles after snapshot k was produced never changes any field
\* of snapshot k: its memory, delay, PE and control-signal contents are copies of the
\* state at cycle k, not views of the live state.
C13_SnapshotsImmutable ==
  /\ [][SnapshotsKept]_vars
  /\ []FirstSnapshotKept

\* A returned run past the drain: the live output memory holds sums and the live
\* counter has advanced, while snapshot 0 still shows the cells as "0" at cycle 0.
C13_Witness ==
  /\ Constructed
  /\ pc = "ready" /\ calls = 1
  /\ numCycles >= drainStart + arrayWidth
  /\ isSymbolicPartialSum(Ycell(0, 0))
  /\ \A c \in DOMAIN states[0].regs.Y_mem : states[0].regs.Y_mem[c] = "0"
  /\ states[0].regs.controls.cycleCount = 0
  /\ cycle > 0
  /\ states[numCycles - 1].regs.Y_mem[0] # "0"

\* C14 - for every successfully constructed top level and any number of simulated
\* cycles, no cycle raises an error: no InconsistentAccumulation or InvalidOperandPair
\* from a PE, no LengthMismatch from a delay triangle, no OutOfBounds from a memory.
C14_NoCycleError ==
  Constructed
    => /\ err = NoError
       /\ pc # "failed"
       /\ TopLevel_update(arrayWidth, submodules).err = NoError

\* A second simulate call has returned after the stream, the wavefront, the drain and
\* cycles past the drain of a 3 x 3 array, without an error.
C14_Witness ==
  /\ Constructed
  /\ pc = "ready" /\ calls = 2
  /\ arrayWidth = 3 /\ streamLength >= 2
  /\ cycle > drainStart + arrayWidth
  /\ err = NoError
  /\ \A i \in Rows, j \in Rows : isSymbolicPartialSum(Ycell(i, j))

\* The registers of a PE are ready for a fold: X and W are matrix elements with
\* X.j = W.i = k, and Acc is the zero constant with k = 0 or the partial sum of count k
\* over the names and the indices i, j of X and W.
FoldReady(regs) ==
  /\ isSymbolicMatrixElement(regs.X)
  /\ isSymbolicMatrixElement(regs.W)
  /\ regs.X.j = regs.W.i
  /\ \/ isConstantZero(regs.Acc) /\ regs.X.j = 0
     \/ /\ isSymbolicPartialSum(regs.Acc)
        /\ regs.Acc.N = regs.X.j
        /\ regs.Acc.leftMatrixName = regs.X.matrixName
        /\ regs.Acc.rightMatrixName = regs.W.matrixName
        /\ regs.Acc.i = regs.X.i
        /\ regs.Acc.j = regs.W.j

\* The partial sum a fold of the registers regs produces.
Folded(regs) ==
  SymbolicPartialSum(regs.X.matrixName, regs.W.matrixName, regs.X.i, regs.W.j,
                     regs.X.j + 1)

\* Whatever pair is handed in, update succeeds on fold-ready registers, stores the pair
\* and the fold of the registers held before the call.
FoldOfRegisters ==
  (StandAlone /\ FoldReady(pe))
    => \A X_in \in PEValues, W_in \in PEValues :
         PE_update(pe, [X_in |-> X_in, W_in |-> W_in])
           = [err |-> NoError, regs |-> [X |-> X_in, W |-> W_in, Acc |-> Folded(pe)]]

\* An update step from fold-ready registers succeeds with the fold in Acc.
FoldStep ==
  (StandAlone /\ FoldReady(pe)) => (pe_err' = NoError /\ pe'.Acc = Folded(pe))

\* C15 - PE fold: when X and W are matrix elements with X.j = W.i = k and Acc is the
\* zero constant with k = 0 or the partial sum of count k matching X and W, update
\* succeeds and leaves Acc = PartialSum(X.name, W.name, X.i, W.j, k + 1), X = X_in and
\* W = W_in; the fold uses the registers held before the call, never X_in / W_in.
C15_Fold ==
  /\ []FoldOfRegisters
  /\ [][FoldStep]_vars

\* A PE after two folds: the sum of count 2 of row 0 and column 1, with a newly
\* handed-in pair in X and W that took no part in it.
C15_Witness ==
  /\ StandAlone
  /\ pe_err = NoError
  /\ pe.Acc = SymbolicPartialSum("X", "W", 0, 1, 2)
  /\ pe.X = SymbolicMatrixElement("W", 1, 1)
  /\ pe.W = ConstantInteger(1)

\* The registers of a PE pass through: X and W are not both matrix elements and at
\* least one of them is the zero constant.
PassesThrough(regs) ==
  /\ ~(isSymbolicMatrixElement(regs.X) /\ isSymbolicMatrixElement(regs.W))
  /\ (isConstantZero(regs.X) \/ isConstantZero(regs.W))

\* C16 - PE pass-through: when X and W are not both matrix elements and at least one of
\* them is the zero constant, update succeeds, leaves Acc exactly as it was and sets
\* X = X_in and W = W_in.
C16_PassThrough ==
  (StandAlone /\ PassesThrough(pe))
    => \A X_in \in PEValues, W_in \in PEValues :
         PE_update(pe, [X_in |-> X_in, W_in |-> W_in])
           = [err |-> NoError, regs |-> [X |-> X_in, W |-> W_in, Acc |-> pe.Acc]]

\* A PE that folded once and then passed through twice: the sum of count 1 is kept
\* while an element paired with the zero constant sits in X and W.
C16_Witness ==
  /\ StandAlone
  /\ pe_err = NoError
  /\ pe.Acc = SymbolicPartialSum("X", "W", 1, 1, 1)
  /\ pe.X = SymbolicMatrixElement("X", 0, 1)
  /\ isConstantZero(pe.W)

\* X and W are matrix elements and the fold is inconsistent, case by case: the
\* reduction indices differ; Acc is zero but k = X.j is not 0; Acc is a partial sum of
\* another count; Acc is a partial sum of count k over other names or indices; Acc is
\* neither the zero constant nor a partial sum.
BadFold(regs) ==
  /\ isSymbolicMatrixElement(regs.X)
  /\ isSymbolicMatrixElement(regs.W)
  /\ \/ regs.X.j # regs.W.i
     \/ isConstantZero(regs.Acc) /\ regs.X.j # 0
     \/ isSymbolicPartialSum(regs.Acc) /\ regs.Acc.N # regs.X.j
     \/ /\ isSymbolicPartialSum(regs.Acc)
        /\ regs.Acc.N = regs.X.j
        /\ \/ regs.Acc.leftMatrixName # regs.X.matrixName
           \/ regs.Acc.rightMatrixName # regs.W.matrixName
           \/ regs.Acc.i # regs.X.i
           \/ regs.Acc.j # regs.W.j
     \/ ~isConstantZero(regs.Acc) /\ ~isSymbolicPartialSum(regs.Acc)

\* An update step from registers with an inconsistent fold throws and changes nothing.
BadFoldStep ==
  (StandAlone /\ BadFold(pe)) => (pe_err' = InconsistentAccumulation /\ pe' = pe)

\* update never leaves anything but the zero constant or a partial sum in Acc, so the
\* last case is applied to the registers with such a value put into Acc.
OtherAccRejected ==
  (StandAlone /\ isSymbolicMatrixElement(pe.X) /\ isSymbolicMatrixElement(pe.W))
    => \A acc \in {ConstantInteger(1), pe.X} : \A v \in PEValues :
         LET regs == [pe EXCEPT !.Acc = acc]
         IN /\ BadFold(regs)
            /\ PE_update(regs, [X_in |-> v, W_in |-> v])
                 = [err |-> InconsistentAccumulation, regs |-> regs]

\* C17 - when X and W are both matrix elements, update fails with
\* InconsistentAccumulation if X.j # W.i, if Acc is zero and k = X.j # 0, if Acc is a
\* partial sum with count # k, if Acc is a partial sum with count = k whose names, i or
\* j differ from those of X and W, or if Acc is any other value; the failure leaves X,
\* W and Acc unchanged.
C17_InconsistentFold ==
  /\ [][BadFoldStep]_vars
  /\ []OtherAccRejected

\* A failed update whose only fault is the identity of the sum: count 1 = X.j = W.i,
\* but the sum is that of row 0 while X is an element of row 1.
C17_Witness ==
  /\ StandAlone
  /\ pe_err = InconsistentAccumulation
  /\ pe.Acc = SymbolicPartialSum("X", "W", 0, 0, 1)
  /\ pe.X = SymbolicMatrixElement("X", 1, 1)
  /\ pe.W = SymbolicMatrixElement("W", 1, 0)

\* C18 as stated - update fails with InvalidOperandPair whenever X and W are neither
\* both matrix elements nor both the zero constant.
C18_InvalidPair_AsStated ==
  (/\ StandAlone
   /\ ~(isSymbolicMatrixElement(pe.X) /\ isSymbolicMatrixElement(pe.W))
   /\ ~(isConstantZero(pe.X) /\ isConstantZero(pe.W)))
    => \A X_in \in PEValues, W_in \in PEValues :
         PE_update(pe, [X_in |-> X_in, W_in |-> W_in]).err = InvalidOperandPair

\* C18 amended - when X and W are not both matrix elements, update fails with
\* InvalidOperandPair exactly when neither of them is the zero constant, and the failure
\* leaves the registers unchanged; a pair with one zero constant and one other value
\* passes through without error.
C18_InvalidPair ==
  (StandAlone /\ ~(isSymbolicMatrixElement(pe.X) /\ isSymbolicMatrixElement(pe.W)))
    => \A X_in \in PEValues, W_in \in PEValues :
         LET r == PE_update(pe, [X_in |-> X_in, W_in |-> W_in])
         IN IF ~isConstantZero(pe.X) /\ ~isConstantZero(pe.W)
            THEN r = [err |-> InvalidOperandPair, regs |-> pe]
            ELSE r.err = NoError

\* A failed update of a PE that holds an element paired with a non-zero constant.
C18_Witness ==
  /\ StandAlone
  /\ pe_err = InvalidOperandPair
  /\ isSymbolicMatrixElement(pe.X)
  /\ pe.W = ConstantInteger(1)

\* The external input vectors the array receives in the cycle about to run: the row
\* read from the memory (zeros once the stream has ended) behind its delay triangle.
ExternalX ==
  Delay_produce_output(
    submodules.X_delay,
    IF Signals.X_memReadEnable
    THEN readRow(submodules.X_mem, Signals.X_memReadAddress, 0, arrayWidth).row
    ELSE Filled(arrayWidth, ConstantInteger(0))).output

ExternalW ==
  Delay_produce_output(
    submodules.W_delay,
    IF Signals.W_memReadEnable
    THEN readRow(submodules.W_mem, Signals.W_memReadAddress, 0, arrayWidth).row
    ELSE Filled(arrayWidth, ConstantInteger(0))).output

\* The synchronous (two-phase) update of the array: every PE is updated from the
\* pre-cycle registers of its neighbours and of itself.
Synchronous(array, inputs_X, inputs_W) ==
  [i \in DOMAIN array |->
     [j \in DOMAIN array[i] |->
        [X |-> IF j = 0 THEN inputs_X[i] ELSE array[i][j - 1].X,
         W |-> IF i = 0 THEN inputs_W[j] ELSE array[i - 1][j].W,
         Acc |-> IF isSymbolicMatrixElement(array[i][j].X)
                    /\ isSymbolicMatrixElement(array[i][j].W)
                 THEN Folded(array[i][j])
                 ELSE array[i][j].Acc]]]

\* A non-evicting update step of the simulation leaves the array as the synchronous
\* update of the pre-cycle array does.
SynchronousStep ==
  (Constructed /\ pc = "update" /\ ~Signals.movesOutputDown)
    => /\ err' = NoError
       /\ submodules'.systolicArray.array
            = Synchronous(submodules.systolicArray.array, ExternalX, ExternalW)

\* On every array the simulation reaches, the in-place update agrees with the
\* synchronous one also for input vectors other than those of the cycle.
SynchronousAnyInput ==
  Constructed
    => \A in \in {<<ExternalW, ExternalX>>,
                  <<Filled(arrayWidth, ConstantInteger(0)), ExternalW>>,
                  <<ExternalX, Filled(arrayWidth, ConstantInteger(0))>>} :
         SystolicArray_update(submodules.systolicArray, in[1], in[2],
                              [movesOutputDown |-> FALSE])
           = [err |-> NoError,
              sa |-> [N |-> arrayWidth,
                      array |-> Synchronous(submodules.systolicArray.array, in[1], in[2])]]

\* C19 - the non-evicting array update, done in place in decreasing (i, j) order, equals
\* the synchronous update from the pre-cycle state: PE(i,j).X becomes the pre-cycle X of
\* PE(i,j-1) (external X input i for j = 0), PE(i,j).W the pre-cycle W of PE(i-1,j)
\* (external W input j for i = 0), and PE(i,j).Acc the fold of PE(i,j)'s own pre-cycle
\* X, W and Acc.
C19_SynchronousUpdate ==
  /\ [][SynchronousStep]_vars
  /\ []SynchronousAnyInput

\* Two cycles into the stream: neighbouring PEs of row 0 hold different elements and
\* PE(0,0) has folded once, PE(0,1) not yet.
C19_Witness ==
  /\ Constructed
  /\ pc = "dump" /\ cycle = 2
  /\ arrayWidth >= 2 /\ streamLength >= 2
  /\ PEreg(0, 0).X = SymbolicMatrixElement("X", 0, 1)
  /\ PEreg(0, 1).X = SymbolicMatrixElement("X", 0, 0)
  /\ PEreg(1, 0).W = SymbolicMatrixElement("W", 0, 0)
  /\ PEreg(0, 0).Acc = SymbolicPartialSum("X", "W", 0, 0, 1)
  /\ isConstantZero(PEreg(0, 1).Acc)

\* The array with every Acc moved one row down and zero in row 0, X and W as they are.
ShiftedDown(array) ==
  [i \in DOMAIN array |->
     [j \in DOMAIN array[i] |->
        [X |-> array[i][j].X,
         W |-> array[i][j].W,
         Acc |-> IF i = 0 THEN ConstantInteger(0) ELSE array[i - 1][j].Acc]]]

\* n evicting updates in a row, with the input vectors of the cycle.
RECURSIVE EvictTimes(_, _)
EvictTimes(sa, n) ==
  IF n = 0 THEN sa
  ELSE EvictTimes(SystolicArray_update(sa, ExternalX, ExternalW,
                                       [movesOutputDown |-> TRUE]).sa, n - 1)

\* An evicting update step of the simulation shifts the accumulators down one row.
EvictStep ==
  (Constructed /\ pc = "update" /\ Signals.movesOutputDown)
    => /\ err' = NoError
       /\ submodules'.systolicArray.array = ShiftedDown(submodules.systolicArray.array)

\* On every array the simulation reaches (also one in mid-stream, with elements in X
\* and W), an evicting update shifts the accumulators down one row whatever the input
\* vectors are, and N of them leave every Acc zero; in the simulation every Acc is zero
\* from cycle drainStart + N on.
EvictAnyInput ==
  Constructed
    => /\ \A in \in {<<ExternalX, ExternalW>>,
                     <<Filled(arrayWidth, ConstantInteger(1)), ExternalX>>} :
            SystolicArray_update(submodules.systolicArray, in[1], in[2],
                                 [movesOutputDown |-> TRUE])
              = [err |-> NoError,
                 sa |-> [N |-> arrayWidth,
                         array |-> ShiftedDown(submodules.systolicArray.array)]]
       /\ EvictTimes(submodules.systolicArray, arrayWidth).array
            = [i \in Rows |->
                 [j \in Rows |->
                    [X |-> PEreg(i, j).X, W |-> PEreg(i, j).W, Acc |-> ConstantInteger(0)]]]
       /\ (cycle >= drainStart + arrayWidth)
            => \A i \in Rows, j \in Rows : isConstantZero(PEreg(i, j).Acc)

\* C20 - an evicting array update moves every Acc one row down (row r gets the
\* pre-cycle Acc of row r - 1), sets every Acc of row 0 to the zero constant, leaves
\* every X and W register unchanged and ignores the external inputs; after N
\* consecutive evicting updates every Acc of the array is the zero constant.
C20_Evict ==
  /\ [][EvictStep]_vars
  /\ []EvictAnyInput

\* After the first evicting update of a 3 x 3 array: row 0 is cleared, rows 1 and 2
\* hold the completed sums of the rows 0 and 1.
C20_Witness ==
  /\ Constructed
  /\ pc = "dump" /\ cycle = drainStart + 1
  /\ arrayWidth = 3
  /\ \A j \in Rows :
       /\ isConstantZero(PEreg(0, j).Acc)
       /\ PEreg(1, j).Acc = SymbolicPartialSum("X", "W", 0, j, streamLength)
       /\ PEreg(2, j).Acc = SymbolicPartialSum("X", "W", 1, j, streamLength)

StandAloneDelay == pc \in {"produce_output", "delay_update", "delay_failed"}

\* The input slot i of cycle t of the stand-alone triangle (cycles count from 0), the
\* zero constant before the first cycle.
DelayInputAt(t, i) == IF t >= 0 THEN dl_hist[t + 1][i] ELSE ConstantInteger(0)

\* The output of the cycle whose produce_output has just returned: slot 0 is the
\* input slot 0 of this cycle, slot i the input slot i of i cycles earlier.
DelayedOutput ==
  (pc = "delay_update")
    => /\ DOMAIN dl_out = 0..dl.N
       /\ \A i \in 0..dl.N : dl_out[i] = DelayInputAt(Len(dl_hist) - 1 - i, i)

\* Between two cycles, register j of chain i - 1 holds the input slot i of j + 1 cycles
\* ago: every value handed in is in exactly one register until it is put out.
DelayedRegisters ==
  (pc = "produce_output")
    => \A i \in 1..dl.N : \A j \in 0..(i - 1) :
         dl.registers[i - 1][j] = DelayInputAt(Len(dl_hist) - 1 - j, i)

\* C21 - a triangle of depth N driven once per cycle by produce_output(input) then
\* update(input): output slot 0 is the current input slot 0; for i in 1..N output slot i
\* at cycle t is the input slot i of cycle t - i, and the zero constant in the first i
\* cycles; within a slot no value is lost, duplicated or reordered.
C21_DelayLine ==
  /\ DelayedOutput
  /\ DelayedRegisters

\* The fourth cycle of a triangle of depth 3 fed elements of X in every cycle: slot i
\* puts out the element handed in i cycles before.
C21_Witness ==
  /\ pc = "delay_update"
  /\ dl.N = 3
  /\ Len(dl_hist) = 4
  /\ dl_err = NoError
  /\ \A i \in 0..3 : dl_out[i] = SymbolicMatrixElement("X", i, 3 - i)

\* The completed sum of output element (i, j).
Completed(i, j) == SymbolicPartialSum("X", "W", i, j, streamLength)

\* Every delay register of the top level is the zero constant.
DelaysEmpty ==
  \A i \in DOMAIN submodules.X_delay.registers :
    \A j \in DOMAIN submodules.X_delay.registers[i] :
      /\ isConstantZero(submodules.X_delay.registers[i][j])
      /\ isConstantZero(submodules.W_delay.registers[i][j])

\* C22 - pipeline fill: drainStart = (2N - 1) + L is the first cycle at which every
\* PE(i,j) holds the completed sum PartialSum(X, W, i, j, L) in Acc; at that cycle every
\* X and W register is the zero constant (no term is in flight), and at cycle
\* drainStart - 1 PE(N-1,N-1) still holds its last pair and has not folded it.
C22_PipelineFill ==
  Constructed
    => /\ (cycle = drainStart)
            => /\ \A i \in Rows, j \in Rows :
                    /\ PEreg(i, j).Acc = Completed(i, j)
                    /\ isConstantZero(PEreg(i, j).X)
                    /\ isConstantZero(PEreg(i, j).W)
               /\ DelaysEmpty
       /\ (cycle < drainStart)
            => PEreg(arrayWidth - 1, arrayWidth - 1).Acc
                 # Completed(arrayWidth - 1, arrayWidth - 1)
       /\ (cycle = drainStart - 1)
            => /\ PEreg(arrayWidth - 1, arrayWidth - 1).X
                    = SymbolicMatrixElement("X", arrayWidth - 1, streamLength - 1)
               /\ PEreg(arrayWidth - 1, arrayWidth - 1).W
                    = SymbolicMatrixElement("W", streamLength - 1, arrayWidth - 1)
               /\ PEreg(arrayWidth - 1, arrayWidth - 1).Acc
                    = IF streamLength = 1 THEN ConstantInteger(0)
                      ELSE SymbolicPartialSum("X", "W", arrayWidth - 1, arrayWidth - 1,
                                              streamLength - 1)

\* The cycle drainStart of a 3 x 3 array, about to be updated: all nine sums are
\* complete, nothing is in flight, nothing has been written yet.
C22_Witness ==
  /\ Constructed
  /\ pc = "update" /\ cycle = drainStart
  /\ arrayWidth = 3 /\ streamLength = 2
  /\ \A i \in Rows, j \in Rows : PEreg(i, j).Acc = Completed(i, j)
  /\ \A i \in Rows, j \in Rows : isConstantZero(PEreg(i, j).X)
  /\ isConstantZero(Ycell(2, 2))
  /\ Signals.movesOutputDown

\* The count of an accumulator: 0 for the zero constant, n for a partial sum of count n.
CountOf(acc) == IF isSymbolicPartialSum(acc) THEN acc.N ELSE 0

\* PE(i,j) holds two zero constants or the pair X[i][k], W[k][j] of one index k.
AlignedPair(i, j) ==
  \/ isConstantZero(PEreg(i, j).X) /\ isConstantZero(PEreg(i, j).W)
  \/ \E k \in 0..(streamLength - 1) :
       /\ PEreg(i, j).X = SymbolicMatrixElement("X", i, k)
       /\ PEreg(i, j).W = SymbolicMatrixElement("W", k, j)

\* Up to drainStart the accumulator of PE(i,j) is zero or a partial sum of its own
\* output element with a count in 1..L.
OwnSum(i, j) ==
  \/ isConstantZero(PEreg(i, j).Acc)
  \/ \E n \in 1..streamLength : PEreg(i, j).Acc = SymbolicPartialSum("X", "W", i, j, n)

OutputStationary ==
  Constructed
    => \A i \in Rows, j \in Rows :
         /\ AlignedPair(i, j)
         /\ (cycle <= drainStart) => OwnSum(i, j)

\* Before eviction starts no step lowers the count of an accumulator.
CountGrows ==
  (Constructed /\ cycle < drainStart)
    => \A i \in Rows, j \in Rows :
         CountOf(submodules'.systolicArray.array[i][j].Acc) >= CountOf(PEreg(i, j).Acc)

\* C23 - output-stationary invariant: in every state of a simulation each PE(i,j) holds
\* in X and W two zero constants or the pair X[i][k], W[k][j] of one reduction index k;
\* at every cycle up to drainStart its Acc is the zero constant or
\* PartialSum(X, W, i, j, n) with 1 <= n <= L, and n never decreases before eviction.
C23_OutputStationary ==
  /\ []OutputStationary
  /\ [][CountGrows]_vars

\* Cycle 4 of a 2 x 2 array with L = 2: PE(1,1) holds the pair of index 1 and the sum
\* of count 1 while PE(0,0) is idle again with its completed sum.
C23_Witness ==
  /\ Constructed
  /\ arrayWidth = 2 /\ streamLength = 2
  /\ cycle = 4
  /\ PEreg(1, 1).X = SymbolicMatrixElement("X", 1, 1)
  /\ PEreg(1, 1).W = SymbolicMatrixElement("W", 1, 1)
  /\ PEreg(1, 1).Acc = SymbolicPartialSum("X", "W", 1, 1, 1)
  /\ isConstantZero(PEreg(0, 0).X) /\ isConstantZero(PEreg(0, 0).W)
  /\ PEreg(0, 0).Acc = SymbolicPartialSum("X", "W", 0, 0, 2)

\* The cells of the row of Y_mem the write address of the cycle points at.
AddressedCells ==
  {c \in DOMAIN submodules.Y_mem.cells :
     c \div arrayWidth = Signals.Y_memWriteAddress}

\* What a step may do to the memories: nothing to X_mem and W_mem; to Y_mem only in
\* an update with the write enable on, and then only to the addressed row; nothing at
\* all once the cycle drainStart + N - 1 has completed.
MemoryFrameStep ==
  Constructed
    => /\ submodules'.X_mem = submodules.X_mem
       /\ submodules'.W_mem = submodules.W_mem
       /\ (submodules'.Y_mem # submodules.Y_mem)
            => /\ pc = "update"
               /\ Signals.Y_memWriteEnable
               /\ cycle < drainStart + arrayWidth
               /\ submodules'.Y_mem.row_count = submodules.Y_mem.row_count
               /\ submodules'.Y_mem.col_count = submodules.Y_mem.col_count
               /\ DOMAIN submodules'.Y_mem.cells = DOMAIN submodules.Y_mem.cells
               /\ \A c \in DOMAIN submodules.Y_mem.cells :
                    (c \notin AddressedCells)
                      => submodules'.Y_mem.cells[c] = submodules.Y_mem.cells[c]

\* The input memories hold what their constructor put there: row k of X_mem is
\* column k of X, row k of W_mem is row k of W.
InputsAsBuilt ==
  Constructed
    => /\ \A k \in 0..(streamLength - 1), i \in Rows :
            /\ submodules.X_mem.cells[k * arrayWidth + i] = SymbolicMatrixElement("X", i, k)
            /\ submodules.W_mem.cells[k * arrayWidth + i] = SymbolicMatrixElement("W", k, i)
       /\ Length(submodules.X_mem.cells) = streamLength * arrayWidth
       /\ Length(submodules.W_mem.cells) = streamLength * arrayWidth

\* C24 - memory frame: no simulated cycle changes a cell of X_mem or W_mem; a cycle
\* changes Y_mem only when Y_memWriteEnable is true, and then only the N cells of the
\* addressed row; once cycle drainStart + N - 1 has completed, Y_mem never changes
\* again however many further cycles are simulated.
C24_MemoryFrame ==
  /\ [][MemoryFrameStep]_vars
  /\ []InputsAsBuilt

\* After the first write of the drain of a 3 x 3 array: row 2 of Y_mem holds sums, the
\* rows 0 and 1 are still zero.
C24_Witness ==
  /\ Constructed
  /\ arrayWidth = 3
  /\ cycle = drainStart + 1
  /\ \A j \in Rows :
       /\ Ycell(2, j) = SymbolicPartialSum("X", "W", 2, j, streamLength)
       /\ isConstantZero(Ycell(1, j))
       /\ isConstantZero(Ycell(0, j))
  /\ submodules.X_mem.cells[1] = SymbolicMatrixElement("X", 1, 0)

\* The window of a call lies outside the memory: the row index is not in 0..rows-1 or
\* the columns [col_offset, col_offset + element_count) are not inside 0..cols.
OutsideMemory(mem, c) ==
  \/ c.row_index \notin 0..(mem.row_count - 1)
  \/ c.col_offset < 0
  \/ c.col_offset + c.element_count > mem.col_count

\* The cells of the window of a call.
WindowCells(mem, c) ==
  {c.row_index * mem.col_count + c.col_offset + i : i \in 0..(c.element_count - 1)}

\* The last call failed with OutOfBounds exactly if its window lies outside the
\* memory; a successful readRow returned the cells of its window in order.
RamCallChecked ==
  (ram_call # Null)
    => /\ ram_err = IF OutsideMemory(ram, ram_call) THEN OutOfBounds ELSE NoError
       /\ (ram_call.op = "readRow" /\ ram_err = NoError)
            => /\ DOMAIN ram_call.out = 0..(ram_call.element_count - 1)
               /\ \A i \in 0..(ram_call.element_count - 1) :
                    ram_call.out[i]
                      = ram.cells[ram_call.row_index * ram.col_count
                                  + ram_call.col_offset + i]

\* A call step: a failing call and a readRow leave every cell unchanged; a successful
\* writeRow changes exactly the cells of its window, to the elements of the row in
\* order; a readRow of the window just written returns the row written.
RamCallStep ==
  (ram # Null)
    => /\ (ram_err' = OutOfBounds \/ ram_call'.op = "readRow") => ram' = ram
       /\ (ram_call'.op = "writeRow" /\ ram_err' = NoError)
            => /\ ram'.row_count = ram.row_count
               /\ ram'.col_count = ram.col_count
               /\ DOMAIN ram'.cells = DOMAIN ram.cells
               /\ \A c \in DOMAIN ram.cells :
                    ram'.cells[c]
                      = IF c \in WindowCells(ram, ram_call')
                        THEN ram_call'.row[c - (ram_call'.row_index * ram.col_count
                                                + ram_call'.col_offset)]
                        ELSE ram.cells[c]
       /\ (/\ pc = "ram_written"
           /\ ram_call'.row_index = ram_call.row_index
           /\ ram_call'.col_offset = ram_call.col_offset
           /\ ram_call'.element_count = ram_call.element_count)
            => (ram_err' = NoError /\ ram_call'.out = ram_call.row)

\* C25 - readRow and writeRow fail with OutOfBounds when the row index is outside
\* 0..rows-1 or the column window is not inside 0..cols; a failing writeRow leaves every
\* cell unchanged; a successful writeRow changes exactly the cells
\* row*cols + colOffset .. row*cols + colOffset + count - 1, which a following readRow
\* of the same window returns.
C25_RamBounds ==
  /\ []RamCallChecked
  /\ [][RamCallStep]_vars

\* A 2 x 2 memory of elements after writeRow(1, 1, 1, row) and a readRow of the same
\* window: only cell 3 was changed and the read returned the row written.
C25_Witness ==
  /\ pc = "ram_read"
  /\ ram.row_count = 2 /\ ram.col_count = 2
  /\ ram_call.op = "readRow"
  /\ ram_call.row_index = 1 /\ ram_call.col_offset = 1 /\ ram_call.element_count = 1
  /\ ram_call.out = RamRow(1)
  /\ ram.cells[3] = SymbolicMatrixElement("R", 0, 0)
  /\ ram.cells[2] = SymbolicMatrixElement("M", 0, 1)
  /\ ram.cells[1] = SymbolicMatrixElement("M", 1, 0)

\* The last call failed with LengthMismatch exactly if its input vector does not have
\* N + 1 slots.
DelayLengthChecked ==
  (StandAloneDelay /\ dl_err # "nocall")
    => dl_err = IF Length(dl_in) # dl.N + 1 THEN LengthMismatch ELSE NoError

\* Chain i of the triangle has the slots 0..i.
Jagged ==
  StandAloneDelay
    => /\ DOMAIN dl.registers = 0..(dl.N - 1)
       /\ \A i \in 0..(dl.N - 1) : DOMAIN dl.registers[i] = 0..i

\* A failing call changes no register, and the depth never changes.
DelayFailStep ==
  StandAloneDelay
    => /\ (dl_err' = LengthMismatch) => (dl' = dl /\ dl_hist' = dl_hist)
       /\ dl'.N = dl.N

\* C26 - produce_output and update of a triangle of depth N fail with LengthMismatch
\* whenever the input vector's length is not N + 1; a failing update leaves every delay
\* register unchanged; chain i has exactly i + 1 slots in every reachable state.
C26_DelayLength ==
  /\ []DelayLengthChecked
  /\ []Jagged
  /\ [][DelayFailStep]_vars

\* A triangle of depth 2 that was driven two cycles with elements and whose third
\* update was handed four slots: the call failed and the registers still hold the
\* elements of the first two cycles.
C26_Witness ==
  /\ pc = "delay_failed"
  /\ dl.N = 2
  /\ Len(dl_hist) = 3
  /\ DOMAIN dl_out = 0..2
  /\ Length(dl_in) = 4
  /\ dl_err = LengthMismatch
  /\ dl.registers[1][0] = SymbolicMatrixElement("X", 2, 1)
  /\ dl.registers[1][1] = SymbolicMatrixElement("X", 2, 0)

\* ---------------------------------------------------------------------------
\* The playback panel (SimulationPanel).  The trace enters only through its
\* length; an interval is a timer whose callback closed over the jsonData of
\* the render that created it.  React runs the effect of a render after that
\* render and before the next one; until then it is pending.
\* ---------------------------------------------------------------------------

\* The smallest value the two number inputs offer, and their initial values.
MinPanelDim == 2
defaultArrayWidth == 2
defaultStreamLength == 3

\* The body of the effect, with the values of the render that scheduled it.
RunEffect(e, tm, playing) ==
  IF e.pending /\ e.currentCycle = e.jsonDataLength - 1
  THEN [timers |-> {t \in tm : t.id # e.intervalId}, isPlaying |-> FALSE]
  ELSE [timers |-> tm, isPlaying |-> playing]

\* What a handler leaves behind: the state it set and the intervals still
\* live.  If some state changed the panel renders again: the pending effect
\* runs first, and a new effect is scheduled when a dependency changed.
Commit(index, length, id, playing, tm) ==
  LET rendered == <<index, length, id, playing>> # <<currentCycle, jsonDataLength, intervalId, isPlaying>>
      depsChanged == <<index, length, id>> # <<currentCycle, jsonDataLength, intervalId>>
      flushed == RunEffect(pendingEffect, tm, playing)
  IN  /\ currentCycle' = index
      /\ jsonDataLength' = length
      /\ intervalId' = id
      /\ isPlaying' = IF rendered THEN flushed.isPlaying ELSE playing
      /\ timers' = IF rendered THEN flushed.timers ELSE tm
      /\ pendingEffect' = IF ~rendered THEN pendingEffect
                          ELSE IF depsChanged
                               THEN [pending |-> TRUE, currentCycle |-> index,
                                     jsonDataLength |-> length, intervalId |-> id]
                               ELSE NoEffect

InitPanel ==
  /\ pc = "panel"
  /\ TopIdle
  /\ PEIdle
  /\ DelayIdle
  /\ RamIdle
  /\ panelArrayWidth = defaultArrayWidth
  /\ panelStreamLength = defaultStreamLength
  /\ jsonDataLength = 0
  /\ currentCycle = 0
  /\ isPlaying = FALSE
  /\ intervalId = 0
  /\ timers = {}
  /\ timerCount = 0
  /\ pendingEffect = NoEffect

\* The two number inputs.
PanelSetDims ==
  /\ pc = "panel"
  /\ \E aw \in MinPanelDim..MaxPanelWidth, sl \in MinPanelDim..MaxPanelStream :
       /\ <<aw, sl>> # <<panelArrayWidth, panelStreamLength>>
       /\ \/ aw = panelArrayWidth
          \/ sl = panelStreamLength
       /\ panelArrayWidth' = aw
       /\ panelStreamLength' = sl
  /\ LET flushed == RunEffect(pendingEffect, timers, isPlaying)
     IN  /\ timers' = flushed.timers
         /\ isPlaying' = flushed.isPlaying
  /\ pendingEffect' = NoEffect
  /\ UNCHANGED <<jsonDataLength, currentCycle, intervalId, timerCount, topVars, peVars, dlVars, ramVars>>

PanelSimulate ==
  /\ pc = "panel"
  /\ Commit(0, defaultCycles(panelArrayWidth, panelStreamLength), intervalId, isPlaying, timers)
  /\ UNCHANGED <<panelArrayWidth, panelStreamLength, timerCount, topVars, peVars, dlVars, ramVars>>

PanelBegin ==
  /\ pc = "panel"
  /\ jsonDataLength > 0
  /\ Commit(0, jsonDataLength, intervalId, isPlaying, timers)
  /\ UNCHANGED <<panelArrayWidth, panelStreamLength, timerCount, topVars, peVars, dlVars, ramVars>>

PanelPrev ==
  /\ pc = "panel"
  /\ jsonDataLength > 0
  /\ Commit(IF currentCycle - 1 > 0 THEN currentCycle - 1 ELSE 0, jsonDataLength, intervalId, isPlaying, timers)
  /\ UNCHANGED <<panelArrayWidth, panelStreamLength, timerCount, topVars, peVars, dlVars, ramVars>>

PanelSlider ==
  /\ pc = "panel"
  /\ jsonDataLength > 0
  /\ \E value \in 0..(jsonDataLength - 1) :
       Commit(value, jsonDataLength, intervalId, isPlaying, timers)
  /\ UNCHANGED <<panelArrayWidth, panelStreamLength, timerCount, topVars, peVars, dlVars, ramVars>>

PanelNext ==
  /\ pc = "panel"
  /\ jsonDataLength > 0
  /\ Commit(IF currentCycle + 1 < jsonDataLength - 1 THEN currentCycle + 1 ELSE jsonDataLength - 1,
            jsonDataLength, intervalId, isPlaying, timers)
  /\ UNCHANGED <<panelArrayWidth, panelStreamLength, timerCount, topVars, peVars, dlVars, ramVars>>

PanelEnd ==
  /\ pc = "panel"
  /\ jsonDataLength > 0
  /\ Commit(jsonDataLength - 1, jsonDataLength, intervalId, isPlaying, timers)
  /\ UNCHANGED <<panelArrayWidth, panelStreamLength, timerCount, topVars, peVars, dlVars, ramVars>>

handlePlayPause ==
  /\ pc = "panel"
  /\ jsonDataLength > 0
  /\ IF isPlaying
     THEN /\ Commit(currentCycle, jsonDataLength, intervalId, FALSE, {t \in timers : t.id # intervalId})
          /\ UNCHANGED timerCount
     ELSE /\ timerCount < MaxTimers
          /\ timerCount' = timerCount + 1
          /\ Commit(currentCycle, jsonDataLength, timerCount + 1, TRUE,
                    timers \cup {[id |-> timerCount + 1, length |-> jsonDataLength]})
  /\ UNCHANGED <<panelArrayWidth, panelStreamLength, topVars, peVars, dlVars, ramVars>>

\* The callback of a live interval: the bound is the length it closed over.
PanelTick ==
  /\ pc = "panel"
  /\ \E t \in timers :
       Commit(IF currentCycle + 1 < t.length - 1 THEN currentCycle + 1 ELSE t.length - 1,
              jsonDataLength, intervalId, isPlaying, timers)
  /\ UNCHANGED <<panelArrayWidth, panelStreamLength, timerCount, topVars, peVars, dlVars, ramVars>>

\* The pending effect runs.
PanelEffect ==
  /\ pc = "panel"
  /\ pendingEffect.pending
  /\ LET flushed == RunEffect(pendingEffect, timers, isPlaying)
     IN  /\ timers' = flushed.timers
         /\ isPlaying' = flushed.isPlaying
  /\ pendingEffect' = NoEffect
  /\ UNCHANGED <<panelArrayWidth, panelStreamLength, jsonDataLength, currentCycle, intervalId,
                 timerCount, topVars, peVars, dlVars, ramVars>>

NextPanel ==
  \/ PanelSetDims
  \/ PanelSimulate
  \/ PanelBegin
  \/ PanelPrev
  \/ PanelSlider
  \/ PanelNext
  \/ PanelEnd
  \/ handlePlayPause
  \/ PanelTick
  \/ PanelEffect

SpecPanel == InitPanel /\ [][NextPanel]_vars

\* ---------------------------------------------------------------------------
\* C27
\* ---------------------------------------------------------------------------

PanelLoaded == pc = "panel" /\ jsonDataLength > 0

\* The interval the panel holds in intervalId has not been cleared.
TimerLive == \E t \in timers : t.id = intervalId

\* The displayed index is an index of the trace.
IndexInRange == PanelLoaded => currentCycle \in 0..(jsonDataLength - 1)

\* At the last snapshot, once the effect of that render has run, the interval
\* is cleared and the panel is not playing.
StoppedAtEnd ==
  (PanelLoaded /\ currentCycle = jsonDataLength - 1 /\ ~pendingEffect.pending) =>
    (~isPlaying /\ ~TimerLive)

\* C27: under any interleaving of Simulate, Begin, Prev, Next, End, the slider,
\* Play/Pause and the ticks of the intervals, while a trace is loaded the
\* displayed index stays within 0..length-1 (also when Simulate loads a shorter
\* trace while an interval started on a longer one is still live), and at the
\* last snapshot the interval is cleared and the panel is not playing.
C27_PanelIndex == IndexInRange /\ StoppedAtEnd

====
